---- MODULE Spec2Model ----
(***************************************************************************)
(* Verification model of the OpenTESArena software renderer               *)
(* (src/OpenTESArena/src/Rendering/SoftwareRenderer.cpp).                  *)
(*                                                                         *)
(* The specifications of the module:                                       *)
(*   SpecSubmit    the draw call batching loop of submitFrame              *)
(*   SpecClip      ProcessClipping / ProcessClippingWithPlane on one       *)
(*                 vertex-shaded triangle                                  *)
(*   SpecPixel     the per-pixel body of RasterizeMeshInternal and the     *)
(*                 pixel shaders, over the frame buffers                   *)
(*   SpecResize    init, resize and the frames that follow                 *)
(*   SpecDispatch  the switches over the shader and texel enums            *)
(*   SpecPool      the buffer and light pools                              *)
(*   SpecUniform   the uniform buffer calls, populateUniformAtIndex        *)
(*   SpecLight     the per-pixel light loop and light level                *)
(*   SpecRaster    front-facing processing and the rasterizer's pixel      *)
(*                 loops over a mesh's clipped triangles                   *)
(*   SpecShade     ProcessMeshBufferLookups and vertex shading of a batch  *)
(*   SpecMeshClip  the clip space mesh of a draw call's triangles          *)
(* Doubles are modelled as exact numbers (integers, or rationals kept as   *)
(* integer tuples over a common denominator); rounding is not modelled.    *)
(***************************************************************************)
EXTENDS Integers, Sequences, FiniteSets, TLC

VARIABLES
    \* ---- submitFrame batching loop ----
    drawCalls,              \* the supplied draw call list (vertexShaderType of each)
    drawCallIndex,          \* int drawCallIndex
    maxDrawCallSequenceCount,
    drawCallSequenceCount,
    sequenceIndex,
    vertexShaderType,       \* the batch's vertex shader type, -1 before bootstrap
    meshIndex,              \* rasterize loop counter
    meshProcessCache,       \* slot -> index of the draw call staged in it
    lastSlot,               \* last mesh process cache slot written or read
    dispatched,             \* ProcessVertexShaders dispatches: <<type, meshCount>>
    staged,                 \* draw call indices in the order they were staged
    shadedAs,               \* per staged draw call: type its batch was shaded with
    rasterized,             \* draw call indices in the order they were rasterized
    submitPc,
    \* ---- ProcessClipping of one vertex-shaded triangle ----
    shadedTriangle,         \* shadedV0/V1/V2XYZW + uv0/1/2XY of the triangle
    clipSpaceTriangles,     \* clipSpaceTriangle*Arrays[meshIndex]: index -> triangle
    clipListSize,
    clipListFrontIndex,
    clipPlaneIndex,
    triangleToClip,         \* loop counter of ProcessClippingWithPlane
    clipSpaceMesh,          \* clipSpaceMesh*Arrays[meshIndex]: the triangles sent on
    clipSpaceMeshTriangleCount,
    clipOutOfBounds,        \* a clip list slot >= MAX_CLIPPED_TRIANGLE_TRIANGLES was accessed
    passStartFront,         \* clipListFrontIndex when the current pass began
    passStartSize,          \* clipListSize when the current pass began
    passTaken,              \* clip list indices read during the current pass
    prevPassOutput,         \* triangles awaiting the current plane
    clipPc,
    \* ---- frame buffers and the per-pixel rasterizer body ----
    paletteTextureID,       \* settings.paletteTextureID of the frame
    paletteIndexBuffer,     \* g_paletteIndexBuffer: pixel -> palette index
    depthBuffer,            \* g_depthBuffer: pixel -> depth
    colorBuffer,            \* g_colorBuffer: pixel -> ARGB colour
    transparentFragment,    \* <<pixel, shader, colour and depth before>> when the fragment
                            \* processed last was a transparent texel under AlphaTested*
    opaqueOnly,             \* the frame so far drew only depth-tested Opaque fragments
    opaqueFragments,        \* those fragments (at most two), in submission order
    frameBufferWidth,       \* paletteIndexBuffer.getWidth()
    frameBufferHeight,      \* paletteIndexBuffer.getHeight()
    frameFollowsResize,     \* the frame is the first submitted after a resize
    ditheringMode,          \* this->ditheringMode
    ditherBuffer,           \* this->ditherBuffer
    frameDitheringMode,     \* settings.ditheringMode of the frame being rendered
    pixelPc,
    \* enum dispatch
    dispatchLog,            \* what each dispatch ran, in order
    lastDispatch,           \* the value the last dispatch switched on
    crashMessage,           \* message of the fatal crash, "" while running
    \* resource pools
    vertexBuffers,          \* this->vertexBuffers
    uniformBuffers,         \* this->uniformBuffers
    lights,                 \* this->lights
    lastPoolCall,           \* the last pool call, its arguments and its result
    \* per-pixel lighting
    ambientPercent,         \* g_ambientPercent
    lightCount,             \* lights of the draw call
    lightIndex,
    lightIntensitySum,
    shadedLight,            \* the light of the last loop iteration, and its result
    shaderLightLevel,       \* shaderLighting.lightLevel
    lightDithered,          \* the dithering step bumped the light level
    lightPc,
    \* front-facing processing and rasterization of a mesh
    rasterShaded,
    clipSpaceMeshTriangles,
    rasterTriangleIndex,
    rasterizerTriangles,
    rasterizerTriangleCount,
    rasterVisits,
    rasterPc,
    \* vertex shading cache staging and vertex shading of a batch
    batchMeshes,
    lookupMeshIndex,
    vertexShadingCache,
    vertexShadingCacheTriangleCount,
    stagingOverrun,
    triangleWriteCounts,
    shadedTriangles,
    shadeTriangleIndex,
    shadePc,
    \* the clip space mesh of one draw call
    indexBufferTriangleCount,
    meshShadedTriangle,
    meshTriangleIndex,
    meshClipSpaceTriangleCount,
    meshClipOutOfBounds,
    meshClipPc

submitVars == <<drawCalls, drawCallIndex, maxDrawCallSequenceCount, drawCallSequenceCount,
                sequenceIndex, vertexShaderType, meshIndex, meshProcessCache, lastSlot,
                dispatched, staged, shadedAs, rasterized, submitPc>>

clipVars == <<shadedTriangle, clipSpaceTriangles, clipListSize, clipListFrontIndex,
              clipPlaneIndex, triangleToClip, clipSpaceMesh, clipSpaceMeshTriangleCount,
              clipOutOfBounds, passStartFront, passStartSize, passTaken, prevPassOutput,
              clipPc>>

pixelVars == <<paletteTextureID, paletteIndexBuffer, depthBuffer, colorBuffer,
               transparentFragment, opaqueOnly, opaqueFragments, frameBufferWidth,
               frameBufferHeight, frameFollowsResize, ditheringMode, ditherBuffer,
               frameDitheringMode, pixelPc>>

dispatchVars == <<dispatchLog, lastDispatch, crashMessage>>

poolVars == <<vertexBuffers, uniformBuffers, lights, lastPoolCall>>

lightVars == <<ambientPercent, lightCount, lightIndex, lightIntensitySum, shadedLight,
               shaderLightLevel, lightDithered, lightPc>>

rasterVars == <<rasterShaded, clipSpaceMeshTriangles, rasterTriangleIndex, rasterizerTriangles, rasterizerTriangleCount, rasterVisits, rasterPc>>

shadeVars == <<batchMeshes, lookupMeshIndex, vertexShadingCache, vertexShadingCacheTriangleCount, stagingOverrun, triangleWriteCounts, shadedTriangles, shadeTriangleIndex, shadePc>>

meshClipVars == <<indexBufferTriangleCount, meshShadedTriangle, meshTriangleIndex, meshClipSpaceTriangleCount, meshClipOutOfBounds, meshClipPc>>

resourceVars == <<dispatchVars, poolVars, lightVars, rasterVars, shadeVars, meshClipVars>>

vars == <<submitVars, clipVars, pixelVars, resourceVars>>

\* ------------------------------------------------------------------------
\* Bounds of the model
\* ------------------------------------------------------------------------
MaxDrawCalls == 9

\* pixels of the frame buffer
FrameBufferPixelCount == 1

\* Dispatches followed before the model stops
MaxDispatches == 2

\* Slots of each resource pool
PoolCapacity == 2

\* Lights a draw call names
MaxLights == 2

\* Largest light radius
MaxRadius == 2

\* distinct fragment depths
MaxDepth == 2

\* rows of the light table (lighting.lightLevelCount)
LightLevelCount == 2

\* g_frameBufferWidth and g_frameBufferHeight of the rasterized frame
RasterFrameWidth == 2

RasterFrameHeight == 2

\* draw calls of one batch whose meshes are staged and vertex-shaded
MaxBatchMeshes == 3

\* ------------------------------------------------------------------------
\* Program constants
\* ------------------------------------------------------------------------
MAX_MESH_PROCESS_CACHES == 8

MAX_CLIPPED_TRIANGLE_TRIANGLES == 64

VertexShaderTypes == {"Basic", "RaisingDoor", "Entity"}

NoVertexShaderType == "-1"

Min(a, b) == IF a < b THEN a ELSE b

Max(a, b) == IF a > b THEN a ELSE b

\* ------------------------------------------------------------------------
\* submitFrame: the batching loop
\* ------------------------------------------------------------------------
DrawCallLists == UNION {[1..n -> VertexShaderTypes] : n \in 0..MaxDrawCalls}

drawCallCount == Len(drawCalls)

\* ProcessVertexShaders: the switch on the vertex shader type.
ProcessVertexShaders(meshCount, type) ==
    CASE type = "Basic" -> <<"Basic", meshCount>>
      [] type = "RaisingDoor" -> <<"RaisingDoor", meshCount>>
      [] type = "Entity" -> <<"Entity", meshCount>>
      [] OTHER -> <<"DebugNotImplemented", meshCount>>

\* Mutation: the batch bound forgets MAX_MESH_PROCESS_CACHES.
MaxDrawCallSequenceCount_Unbounded(count, index) == count - index

\* const int maxDrawCallSequenceCount = std::min(MAX_MESH_PROCESS_CACHES, drawCallCount - drawCallIndex);
MaxDrawCallSequenceCount(count, index) == Min(MAX_MESH_PROCESS_CACHES, count - index)

\* Mutation: the bootstrap draw call is compared too, so every batch is empty.
SequenceBreaks_NoBootstrap(isBootstrap, drawCallType, batchType) ==
    drawCallType # batchType

\* Mutation: the vertex shader type is never compared.
SequenceBreaks_Never(isBootstrap, drawCallType, batchType) == FALSE

\* else if (drawCall.vertexShaderType != vertexShaderType) break;
SequenceBreaks(isBootstrap, drawCallType, batchType) ==
    (~isBootstrap) /\ drawCallType # batchType

\* Mutation: the loop advances by one draw call instead of by the batch.
AdvanceDrawCallIndex_ByOne(index, count) == index + 1

\* drawCallIndex += drawCallSequenceCount;
AdvanceDrawCallIndex(index, count) == index + count

SubmitInit ==
    /\ drawCalls \in DrawCallLists
    /\ drawCallIndex = 0
    /\ maxDrawCallSequenceCount = 0
    /\ drawCallSequenceCount = 0
    /\ sequenceIndex = 0
    /\ vertexShaderType = NoVertexShaderType
    /\ meshIndex = 0
    /\ meshProcessCache = [s \in 0..(MAX_MESH_PROCESS_CACHES - 1) |-> -1]
    /\ lastSlot = 0
    /\ dispatched = <<>>
    /\ staged = <<>>
    /\ shadedAs = <<>>
    /\ rasterized = <<>>
    /\ submitPc = "while"

\* while (drawCallIndex < drawCallCount) { ... set up the batch ... }
SubmitWhileEnter ==
    /\ submitPc = "while"
    /\ drawCallIndex < drawCallCount
    /\ vertexShaderType' = NoVertexShaderType
    /\ maxDrawCallSequenceCount' = MaxDrawCallSequenceCount(drawCallCount, drawCallIndex)
    /\ drawCallSequenceCount' = 0
    /\ sequenceIndex' = 0
    /\ submitPc' = "for"
    /\ UNCHANGED <<drawCalls, drawCallIndex, meshIndex, meshProcessCache, lastSlot,
                   dispatched, staged, shadedAs, rasterized>>

\* The while condition fails: submitFrame returns.
SubmitWhileExit ==
    /\ submitPc = "while"
    /\ ~(drawCallIndex < drawCallCount)
    /\ submitPc' = "done"
    /\ UNCHANGED <<drawCalls, drawCallIndex, maxDrawCallSequenceCount, drawCallSequenceCount,
                   sequenceIndex, vertexShaderType, meshIndex, meshProcessCache, lastSlot,
                   dispatched, staged, shadedAs, rasterized>>

\* One iteration of the staging for loop that does not break: the draw call
\* is written to mesh process cache slot sequenceIndex.
SubmitStageDrawCall ==
    /\ submitPc = "for"
    /\ sequenceIndex < maxDrawCallSequenceCount
    /\ LET sequenceDrawCallIndex == drawCallIndex + sequenceIndex
           drawCallType == IF sequenceDrawCallIndex + 1 \in DOMAIN drawCalls
                           THEN drawCalls[sequenceDrawCallIndex + 1]
                           ELSE NoVertexShaderType
           isBootstrap == sequenceIndex = 0
       IN /\ ~SequenceBreaks(isBootstrap, drawCallType, vertexShaderType)
          /\ vertexShaderType' = IF isBootstrap THEN drawCallType ELSE vertexShaderType
          /\ meshProcessCache' = [meshProcessCache EXCEPT ![sequenceIndex] = sequenceDrawCallIndex]
          /\ lastSlot' = sequenceIndex
          /\ staged' = Append(staged, sequenceDrawCallIndex)
    /\ drawCallSequenceCount' = drawCallSequenceCount + 1
    /\ sequenceIndex' = sequenceIndex + 1
    /\ UNCHANGED <<drawCalls, drawCallIndex, maxDrawCallSequenceCount, meshIndex,
                   dispatched, shadedAs, rasterized, submitPc>>

\* The staging loop ends (bound reached or break on another vertex shader
\* type); the batch goes through ProcessMeshBufferLookups,
\* CalculateVertexShaderTransforms, ProcessVertexShaders, ProcessClipping and
\* ProcessClipSpaceTrianglesForFrontFacing.
SubmitProcessBatch ==
    /\ submitPc = "for"
    /\ \/ ~(sequenceIndex < maxDrawCallSequenceCount)
       \/ /\ sequenceIndex < maxDrawCallSequenceCount
          /\ SequenceBreaks(sequenceIndex = 0,
                            IF drawCallIndex + sequenceIndex + 1 \in DOMAIN drawCalls
                            THEN drawCalls[drawCallIndex + sequenceIndex + 1]
                            ELSE NoVertexShaderType,
                            vertexShaderType)
    /\ dispatched' = Append(dispatched, ProcessVertexShaders(drawCallSequenceCount, vertexShaderType))
    /\ shadedAs' = shadedAs \o [i \in 1..drawCallSequenceCount |->
                                 ProcessVertexShaders(drawCallSequenceCount, vertexShaderType)[1]]
    /\ meshIndex' = 0
    /\ submitPc' = "rasterize"
    /\ UNCHANGED <<drawCalls, drawCallIndex, maxDrawCallSequenceCount, drawCallSequenceCount,
                   sequenceIndex, vertexShaderType, meshProcessCache, lastSlot, staged, rasterized>>

\* for (meshIndex ...) RasterizeMesh(meshIndex, ...): one mesh of the batch.
SubmitRasterizeMesh ==
    /\ submitPc = "rasterize"
    /\ meshIndex < drawCallSequenceCount
    /\ rasterized' = Append(rasterized,
                            IF meshIndex \in DOMAIN meshProcessCache
                            THEN meshProcessCache[meshIndex] ELSE -1)
    /\ lastSlot' = meshIndex
    /\ meshIndex' = meshIndex + 1
    /\ UNCHANGED <<drawCalls, drawCallIndex, maxDrawCallSequenceCount, drawCallSequenceCount,
                   sequenceIndex, vertexShaderType, meshProcessCache, dispatched, staged,
                   shadedAs, submitPc>>

\* End of the while body: drawCallIndex += drawCallSequenceCount.
SubmitAdvance ==
    /\ submitPc = "rasterize"
    /\ ~(meshIndex < drawCallSequenceCount)
    /\ drawCallIndex' = AdvanceDrawCallIndex(drawCallIndex, drawCallSequenceCount)
    /\ submitPc' = "while"
    /\ UNCHANGED <<drawCalls, maxDrawCallSequenceCount, drawCallSequenceCount, sequenceIndex,
                   vertexShaderType, meshIndex, meshProcessCache, lastSlot, dispatched,
                   staged, shadedAs, rasterized>>

SubmitNext ==
    \/ SubmitWhileEnter
    \/ SubmitWhileExit
    \/ SubmitStageDrawCall
    \/ SubmitProcessBatch
    \/ SubmitRasterizeMesh
    \/ SubmitAdvance

\* ------------------------------------------------------------------------
\* Exact arithmetic standing in for double: a number is <<numerator,
\* denominator>> in lowest terms with a positive denominator.
\* ------------------------------------------------------------------------
Abs(a) == IF a < 0 THEN -a ELSE a

RECURSIVE GCD(_, _)
GCD(a, b) == IF b = 0 THEN a ELSE GCD(b, a % b)

RNorm(n, d) ==
    LET g == GCD(Abs(n), Abs(d))
    IN IF g = 0 THEN <<n, d>>
       ELSE IF d < 0 THEN <<-(n \div g), -(d \div g)>> ELSE <<n \div g, d \div g>>

R(n) == <<n, 1>>

RAdd(a, b) == RNorm((a[1] * b[2]) + (b[1] * a[2]), a[2] * b[2])

RSub(a, b) == RNorm((a[1] * b[2]) - (b[1] * a[2]), a[2] * b[2])

RMul(a, b) == RNorm(a[1] * b[1], a[2] * b[2])

RDiv(a, b) == RNorm(a[1] * b[2], a[2] * b[1])

RNeg(a) == <<-a[1], a[2]>>

\* outs[i] = start + ((end - start) * percent);
Double_LerpN(start, end, percent) == RAdd(start, RMul(RSub(end, start), percent))

\* ------------------------------------------------------------------------
\* Clipping
\* ------------------------------------------------------------------------
\* A vertex is <<x, y, z, w, u, v>>: a clip space XYZW with its UV.
Vertex(x, y, z, w, u, v) == <<R(x), R(y), R(z), R(w), R(u), R(v)>>

ZeroVertex == Vertex(0, 0, 0, 0, 0, 0)

\* Content of a clip list slot that the current triangle has not written.
StaleTriangle == <<ZeroVertex, ZeroVertex, ZeroVertex>>

\* Vertex-shaded input vertices: inside the frustum (some on its planes) and
\* outside of it.
ClipVertices ==
    { Vertex(-4, 3, 1, 2, 1, 0),
      Vertex(0, 2, 0, 2, 0, 0),
      Vertex(3, -3, -4, 1, 0, 1),
      Vertex(0, 0, 0, 1, 0, 0),
      Vertex(1, -1, 1, 1, 1, 0),
      Vertex(-1, 1, 0, 2, 0, 1) }

ShadedTriangles == ClipVertices \X ClipVertices \X ClipVertices

ClipPlaneCount == 6

\* v0Component.. : X for planes 0 and 1, Y for planes 2 and 3, Z otherwise.
PlaneComponent(vertex, plane) ==
    IF plane = 0 \/ plane = 1 THEN vertex[1]
    ELSE IF plane = 2 \/ plane = 3 THEN vertex[2]
    ELSE vertex[3]

\* comparisonSign: 1.0 for even planes, -1.0 for odd planes.
ComparisonSign(plane) == IF plane % 2 = 0 THEN 1 ELSE -1

\* v0w.. : W for even planes, -W for odd planes.
PlaneW(vertex, plane) == IF plane % 2 = 0 THEN vertex[4] ELSE RNeg(vertex[4])

\* vDiffs[i] = component + w
VDiff(vertex, plane) == RAdd(PlaneComponent(vertex, plane), PlaneW(vertex, plane))

\* Mutation: a vertex lying on the plane counts as outside.
IsVertexInside_Strict(vertex, plane) ==
    (VDiff(vertex, plane)[1] * ComparisonSign(plane)) > 0

\* isV0Inside = (vDiffs[0] * comparisonSign) >= 0.0
IsVertexInside(vertex, plane) ==
    (VDiff(vertex, plane)[1] * ComparisonSign(plane)) >= 0

\* insideMaskIndex = (isV2Inside ? 0 : 1) | (isV1Inside ? 0 : 2) | (isV0Inside ? 0 : 4)
InsideMaskIndex(tri, plane) ==
    (IF IsVertexInside(tri[3], plane) THEN 0 ELSE 1)
    + (IF IsVertexInside(tri[2], plane) THEN 0 ELSE 2)
    + (IF IsVertexInside(tri[1], plane) THEN 0 ELSE 4)

\* Mutation: the case with only V2 outside emits one triangle.
ClipCaseResultTriangleCounts_OneForV2(mask) == <<1, 1, 2, 1, 2, 1, 1, 0>>[mask + 1]

\* clipCaseResultTriangleCounts[insideMaskIndex]
ClipCaseResultTriangleCounts(mask) == <<1, 2, 2, 1, 2, 1, 1, 0>>[mask + 1]

\* inputIndex0..3 of each clip case (the two segments crossing the plane).
ClipCaseInputIndices(mask) ==
    CASE mask = 1 -> <<1, 2, 2, 0>>
      [] mask = 2 -> <<0, 1, 1, 2>>
      [] mask = 3 -> <<0, 1, 2, 0>>
      [] mask = 4 -> <<0, 1, 2, 0>>
      [] mask = 5 -> <<0, 1, 1, 2>>
      [] mask = 6 -> <<1, 2, 2, 0>>

\* Mutation: the case with V1 and V2 outside lists its generated vertices
\* in the opposite order.
ClipCaseResultIndices_Flipped(mask) ==
    CASE mask = 0 -> <<0, 1, 2>>
      [] mask = 1 -> <<0, 1, 3, 3, 4, 0>>
      [] mask = 2 -> <<0, 3, 4, 4, 2, 0>>
      [] mask = 3 -> <<0, 4, 3>>
      [] mask = 4 -> <<3, 1, 2, 2, 4, 3>>
      [] mask = 5 -> <<3, 1, 4>>
      [] mask = 6 -> <<3, 2, 4>>

\* resultIndex0..5 of each clip case; 3 and 4 are the generated vertices.
\* Case 0 copies the three input vertices.
ClipCaseResultIndices(mask) ==
    CASE mask = 0 -> <<0, 1, 2>>
      [] mask = 1 -> <<0, 1, 3, 3, 4, 0>>
      [] mask = 2 -> <<0, 3, 4, 4, 2, 0>>
      [] mask = 3 -> <<0, 3, 4>>
      [] mask = 4 -> <<3, 1, 2, 2, 4, 3>>
      [] mask = 5 -> <<3, 1, 4>>
      [] mask = 6 -> <<3, 2, 4>>

\* segment0PointT = segment0V0Diff / (segment0V0Diff - segment0V1Diff)
SegmentPointT(v0Diff, v1Diff) == RDiv(v0Diff, RSub(v0Diff, v1Diff))

\* The generated vertex of one segment: every XYZW and UV component lerped.
GeneratedVertex(from, to, plane) ==
    LET t == SegmentPointT(VDiff(from, plane), VDiff(to, plane))
    IN [c \in 1..6 |-> Double_LerpN(from[c], to[c], t)]

\* One iteration body of ProcessClippingWithPlane: the triangles written
\* at resultWriteIndex0 and resultWriteIndex1 (0, 1 or 2 of them).
ClipTriangleWithPlane(tri, plane) ==
    LET mask == InsideMaskIndex(tri, plane)
        count == ClipCaseResultTriangleCounts(mask)
    IN IF mask = 0 THEN
           LET r == ClipCaseResultIndices(0)
           IN <<  <<tri[r[1] + 1], tri[r[2] + 1], tri[r[3] + 1]>>  >>
       ELSE IF mask = 7 THEN <<>>
       ELSE
           LET in == ClipCaseInputIndices(mask)
               r == ClipCaseResultIndices(mask)
               current == <<tri[1], tri[2], tri[3],
                            GeneratedVertex(tri[in[1] + 1], tri[in[2] + 1], plane),
                            GeneratedVertex(tri[in[3] + 1], tri[in[4] + 1], plane)>>
               result0 == <<current[r[1] + 1], current[r[2] + 1], current[r[3] + 1]>>
           IN IF count = 2
              THEN <<result0, <<current[r[4] + 1], current[r[5] + 1], current[r[6] + 1]>> >>
              ELSE <<result0>>

\* Reading slot i of the clip list.
ClipListRead(list, i) == IF i \in DOMAIN list THEN list[i] ELSE StaleTriangle

\* A write past the end of clipSpaceTriangle*Arrays[meshIndex] is undefined
\* behaviour: the slot later reads back as what was written (it landed in
\* the memory behind the array) or as something else.
ClipListWriteOutcomes(index, tri) ==
    IF index < MAX_CLIPPED_TRIANGLE_TRIANGLES THEN {tri} ELSE {tri, StaleTriangle}

\* Mutation: the pass loops over the whole list instead of the waiting part.
TrianglesToClipCount_WholeList(size, front) == size

\* const int trianglesToClipCount = clipListSize - clipListFrontIndex;
TrianglesToClipCount(size, front) == size - front

\* Mutation: the results include the triangles the front index went past.
ResultTriangleCount_WholeList(size, front) == size

\* const int resultTriangleCount = clipListSize - clipListFrontIndex;
ResultTriangleCount(size, front) == size - front

\* No frame is being submitted (the other specifications).
SubmitIdle ==
    /\ drawCalls = <<>>
    /\ drawCallIndex = 0
    /\ maxDrawCallSequenceCount = 0
    /\ drawCallSequenceCount = 0
    /\ sequenceIndex = 0
    /\ vertexShaderType = NoVertexShaderType
    /\ meshIndex = 0
    /\ meshProcessCache = [s \in 0..(MAX_MESH_PROCESS_CACHES - 1) |-> -1]
    /\ lastSlot = 0
    /\ dispatched = <<>>
    /\ staged = <<>>
    /\ shadedAs = <<>>
    /\ rasterized = <<>>
    /\ submitPc = "idle"

\* No clipping in progress (the other specifications).
ClipIdle ==
    /\ shadedTriangle = StaleTriangle
    /\ clipSpaceTriangles = <<>>
    /\ clipListSize = 0
    /\ clipListFrontIndex = 0
    /\ clipPlaneIndex = 0
    /\ triangleToClip = 0
    /\ clipSpaceMesh = <<>>
    /\ clipSpaceMeshTriangleCount = 0
    /\ clipOutOfBounds = FALSE
    /\ passStartFront = 0
    /\ passStartSize = 0
    /\ passTaken = <<>>
    /\ prevPassOutput = 0
    /\ clipPc = "idle"

\* ProcessClipping up to the first plane for one vertex-shaded triangle:
\* slot 0 holds the triangle, clipListSize = 1, clipListFrontIndex = 0.
ClipInit ==
    /\ shadedTriangle \in ShadedTriangles
    /\ clipSpaceTriangles = [i \in {0} |-> shadedTriangle]
    /\ clipListSize = 1
    /\ clipListFrontIndex = 0
    /\ clipPlaneIndex = 0
    /\ triangleToClip = 0
    /\ clipSpaceMesh = <<>>
    /\ clipSpaceMeshTriangleCount = 0
    /\ clipOutOfBounds = FALSE
    /\ passStartFront = 0
    /\ passStartSize = 1
    /\ passTaken = <<>>
    /\ prevPassOutput = 1
    /\ clipPc = "plane"

\* ProcessClippingWithPlane<clipPlaneIndex> is entered.
ClipPlaneBegin ==
    /\ clipPc = "plane"
    /\ clipPlaneIndex < ClipPlaneCount
    /\ triangleToClip' = TrianglesToClipCount(clipListSize, clipListFrontIndex)
    /\ passStartFront' = clipListFrontIndex
    /\ passStartSize' = clipListSize
    /\ passTaken' = <<>>
    /\ clipPc' = "clip"
    /\ UNCHANGED <<shadedTriangle, clipSpaceTriangles, clipListSize, clipListFrontIndex,
                   clipPlaneIndex, clipSpaceMesh, clipSpaceMeshTriangleCount,
                   clipOutOfBounds, prevPassOutput>>

\* One iteration of the loop of ProcessClippingWithPlane.
ClipTriangle ==
    /\ clipPc = "clip"
    /\ triangleToClip > 0
    /\ LET results == ClipTriangleWithPlane(ClipListRead(clipSpaceTriangles, clipListFrontIndex),
                                            clipPlaneIndex)
           clipResultCount == Len(results)
           newSize == clipListSize + clipResultCount
       IN /\ \E written \in [1..clipResultCount -> UNION {ClipListWriteOutcomes(clipListSize + k - 1, results[k]) : k \in 1..clipResultCount}] :
                /\ \A k \in 1..clipResultCount :
                      written[k] \in ClipListWriteOutcomes(clipListSize + k - 1, results[k])
                /\ clipSpaceTriangles' =
                      [i \in 0..(newSize - 1) |->
                          IF i >= clipListSize THEN written[i - clipListSize + 1]
                          ELSE ClipListRead(clipSpaceTriangles, i)]
          /\ clipListSize' = newSize
          /\ clipOutOfBounds' =
                (\/ clipOutOfBounds
                 \/ clipListFrontIndex >= MAX_CLIPPED_TRIANGLE_TRIANGLES
                 \/ (clipResultCount > 0 /\ newSize > MAX_CLIPPED_TRIANGLE_TRIANGLES))
    /\ passTaken' = Append(passTaken, clipListFrontIndex)
    /\ clipListFrontIndex' = clipListFrontIndex + 1
    /\ triangleToClip' = triangleToClip - 1
    /\ UNCHANGED <<shadedTriangle, clipPlaneIndex, clipSpaceMesh, clipSpaceMeshTriangleCount,
                   passStartFront, passStartSize, prevPassOutput, clipPc>>

\* ProcessClippingWithPlane returns; the next plane follows.
ClipPlaneEnd ==
    /\ clipPc = "clip"
    /\ ~(triangleToClip > 0)
    /\ clipPlaneIndex' = clipPlaneIndex + 1
    /\ prevPassOutput' = clipListSize - passStartSize
    /\ clipPc' = "plane"
    /\ UNCHANGED <<shadedTriangle, clipSpaceTriangles, clipListSize, clipListFrontIndex,
                   triangleToClip, clipSpaceMesh, clipSpaceMeshTriangleCount, clipOutOfBounds,
                   passStartFront, passStartSize, passTaken>>

\* After the sixth plane: the clip results are added to the mesh.
ClipAddResults ==
    /\ clipPc = "plane"
    /\ ~(clipPlaneIndex < ClipPlaneCount)
    /\ LET resultTriangleCount == ResultTriangleCount(clipListSize, clipListFrontIndex)
       IN /\ clipSpaceMesh' =
                [dstIndex \in 0..(clipSpaceMeshTriangleCount + resultTriangleCount - 1) |->
                    IF dstIndex < clipSpaceMeshTriangleCount
                    THEN clipSpaceMesh[dstIndex]
                    ELSE ClipListRead(clipSpaceTriangles,
                                      clipListFrontIndex + (dstIndex - clipSpaceMeshTriangleCount))]
          /\ clipSpaceMeshTriangleCount' = clipSpaceMeshTriangleCount + resultTriangleCount
          /\ clipOutOfBounds' =
                (\/ clipOutOfBounds
                 \/ (resultTriangleCount > 0
                     /\ clipListFrontIndex + resultTriangleCount > MAX_CLIPPED_TRIANGLE_TRIANGLES))
    /\ clipPc' = "done"
    /\ UNCHANGED <<shadedTriangle, clipSpaceTriangles, clipListSize, clipListFrontIndex,
                   clipPlaneIndex, triangleToClip, passStartFront, passStartSize, passTaken,
                   prevPassOutput>>

ClipNext ==
    \/ ClipPlaneBegin
    \/ ClipTriangle
    \/ ClipPlaneEnd
    \/ ClipAddResults

\* ------------------------------------------------------------------------
\* Frame buffers, RasterizeMeshInternal's per-pixel body and the pixel shaders
\* ------------------------------------------------------------------------
\* Mutation: the pixel count forgets the height.
PixelCount_WidthOnly(width, height) == width

\* g_frameBufferPixelCount = frameBufferWidth * frameBufferHeight
PixelCount(width, height) == width * height

\* The pixels of the frame buffers, indexed as pixelIndex
Pixels == 0..((frameBufferWidth * frameBufferHeight) - 1)

\* ndcZDepth values of fragments, nearest first
NdcDepths == 1..MaxDepth

\* std::numeric_limits<double>::infinity(): above every fragment's depth
DepthInfinity == MaxDepth + 1

\* lighting.lightLevel: 0 .. lastLightLevel
LightLevels == 0..(LightLevelCount - 1)

\* ArenaRenderUtils palette indices with a special meaning
PALETTE_INDEX_TRANSPARENT == 0

PALETTE_INDEX_LIGHT_LEVEL_LOWEST == 1

PALETTE_INDEX_LIGHT_LEVEL_HIGHEST == 13

PALETTE_INDEX_LIGHT_LEVEL_SRC1 == 14

PALETTE_INDEX_LIGHT_LEVEL_SRC2 == 15

PALETTE_INDEX_LIGHT_LEVEL_DST1 == 158

PALETTE_INDEX_LIGHT_LEVEL_DST2 == 159

PALETTE_INDEX_PUDDLE_EVEN_ROW == 30

\* ArenaRenderUtils::isLightLevelTexel
isLightLevelTexel(texel) ==
    texel >= PALETTE_INDEX_LIGHT_LEVEL_LOWEST /\ texel <= PALETTE_INDEX_LIGHT_LEVEL_HIGHEST

\* Texels of the model's textures: transparent, a dark and a bright colour
OrdinaryTexels == {PALETTE_INDEX_TRANSPARENT, 40, 200}

\* The same for an alpha tested texture
AlphaTestTexels == {PALETTE_INDEX_TRANSPARENT, 200}

\* lighting.texelsPerLightLevel
TexelsPerLightLevel == 256

\* lighting.lightTableTexels[index] of the model's light table: row 0 keeps
\* the colour, every darker row maps a colour to the dark shade 40.
LightTableTexels(index) ==
    IF index \div TexelsPerLightLevel = 0 THEN index % TexelsPerLightLevel ELSE 40

\* The palette textures of the model (8-bit -> 32-bit ARGB as <<a, r, g, b>>):
\* palette 0 has a fully transparent first colour, palette 1 an opaque one.
PaletteTextureIDs == {0, 1}

PaletteColors(textureID, index) ==
    IF index = 0 THEN (IF textureID = 0 THEN <<0, 0, 0, 0>> ELSE <<255, 0, 0, 0>>)
    ELSE <<255, index, index, index>>

\* The colour ClearFrameBuffers fills the colour buffer with (0).
ClearColor == <<0, 0, 0, 0>>

PixelShaderTypes ==
    {"Opaque", "OpaqueWithAlphaTestLayer", "AlphaTested",
     "AlphaTestedWithVariableTexCoordUMin", "AlphaTestedWithVariableTexCoordVMin",
     "AlphaTestedWithPaletteIndexLookup", "AlphaTestedWithLightLevelColor",
     "AlphaTestedWithLightLevelOpacity", "AlphaTestedWithPreviousBrightnessLimit",
     "AlphaTestedWithHorizonMirror"}

\* What a pixel shader leaves behind: nothing, or a palette index.
NoWrite == [written |-> FALSE, texel |-> 0]

Write(texel) == [written |-> TRUE, texel |-> texel]

\* lightTableTexels[texel + (lightLevel * texelsPerLightLevel)]
ShadedTexel(texel, lightLevel) == LightTableTexels(texel + (lightLevel * TexelsPerLightLevel))

PixelShader_Opaque(texel, lightLevel) == Write(ShadedTexel(texel, lightLevel))

\* texel: the alpha test layer's texel; opaqueTexel: the base texture's
PixelShader_OpaqueWithAlphaTestLayer(texel, opaqueTexel, lightLevel) ==
    IF texel = PALETTE_INDEX_TRANSPARENT
    THEN Write(ShadedTexel(opaqueTexel, lightLevel))
    ELSE Write(ShadedTexel(texel, lightLevel))

\* Also the UMin, VMin and LightLevelColor variants, which differ only in
\* the texture coordinates that select the texel.
PixelShader_AlphaTested(texel, lightLevel) ==
    IF texel = PALETTE_INDEX_TRANSPARENT THEN NoWrite
    ELSE Write(ShadedTexel(texel, lightLevel))

\* replacementTexel = lookupTexture.texels[texel]
PixelShader_AlphaTestedWithPaletteIndexLookup(texel, replacementTexel, lightLevel) ==
    IF texel = PALETTE_INDEX_TRANSPARENT THEN NoWrite
    ELSE Write(ShadedTexel(replacementTexel, lightLevel))

PixelShader_AlphaTestedWithLightLevelOpacity(texel, lightLevel, prevFrameBufferPixel) ==
    IF texel = PALETTE_INDEX_TRANSPARENT THEN NoWrite
    ELSE IF isLightLevelTexel(texel)
    THEN Write(LightTableTexels(prevFrameBufferPixel
                 + ((texel - PALETTE_INDEX_LIGHT_LEVEL_LOWEST) * TexelsPerLightLevel)))
    ELSE IF texel = PALETTE_INDEX_LIGHT_LEVEL_SRC1
    THEN Write(LightTableTexels((lightLevel * TexelsPerLightLevel) + PALETTE_INDEX_LIGHT_LEVEL_DST1))
    ELSE IF texel = PALETTE_INDEX_LIGHT_LEVEL_SRC2
    THEN Write(LightTableTexels((lightLevel * TexelsPerLightLevel) + PALETTE_INDEX_LIGHT_LEVEL_DST2))
    ELSE Write(LightTableTexels((lightLevel * TexelsPerLightLevel) + texel))

\* (prevFrameBufferColor & brightnessMaskRGB) == 0 with brightnessLimit 0x3F
IsDarkEnough(color) == color[2] < 64 /\ color[3] < 64 /\ color[4] < 64

PixelShader_AlphaTestedWithPreviousBrightnessLimit(texel, prevFrameBufferColor) ==
    IF ~IsDarkEnough(prevFrameBufferColor) THEN NoWrite
    ELSE IF texel = PALETTE_INDEX_TRANSPARENT THEN NoWrite
    ELSE Write(texel)

PixelShader_AlphaTestedWithHorizonMirror(texel, lightLevel, isReflectedPixelInFrameBuffer, mirroredTexel, fallbackSkyColor) ==
    IF texel = PALETTE_INDEX_TRANSPARENT THEN NoWrite
    ELSE IF texel = PALETTE_INDEX_PUDDLE_EVEN_ROW
    THEN (IF isReflectedPixelInFrameBuffer THEN Write(mirroredTexel) ELSE Write(fallbackSkyColor))
    ELSE Write(ShadedTexel(texel, lightLevel))

\* The pixel shader call of RasterizeMeshInternal for one fragment.
PixelShader(fragment, prevFrameBufferPixel, prevFrameBufferColor, mirroredTexel) ==
    CASE fragment.pixelShaderType = "Opaque" ->
            PixelShader_Opaque(fragment.texel, fragment.lightLevel)
      [] fragment.pixelShaderType = "OpaqueWithAlphaTestLayer" ->
            PixelShader_OpaqueWithAlphaTestLayer(fragment.texel, fragment.texel1, fragment.lightLevel)
      [] fragment.pixelShaderType \in {"AlphaTested", "AlphaTestedWithVariableTexCoordUMin",
                                       "AlphaTestedWithVariableTexCoordVMin",
                                       "AlphaTestedWithLightLevelColor"} ->
            PixelShader_AlphaTested(fragment.texel, fragment.lightLevel)
      [] fragment.pixelShaderType = "AlphaTestedWithPaletteIndexLookup" ->
            PixelShader_AlphaTestedWithPaletteIndexLookup(fragment.texel, fragment.texel1,
                                                          fragment.lightLevel)
      [] fragment.pixelShaderType = "AlphaTestedWithLightLevelOpacity" ->
            PixelShader_AlphaTestedWithLightLevelOpacity(fragment.texel, fragment.lightLevel,
                                                         prevFrameBufferPixel)
      [] fragment.pixelShaderType = "AlphaTestedWithPreviousBrightnessLimit" ->
            PixelShader_AlphaTestedWithPreviousBrightnessLimit(fragment.texel, prevFrameBufferColor)
      [] fragment.pixelShaderType = "AlphaTestedWithHorizonMirror" ->
            PixelShader_AlphaTestedWithHorizonMirror(fragment.texel, fragment.lightLevel,
                fragment.reflectedPixelIndex \in Pixels, mirroredTexel, fragment.texel1)

\* A fragment: one covered pixel of one triangle of a draw call, with the
\* values RasterizeMeshInternal has computed when it reaches the depth test.
\* texel1 is the texel of the second texture (base layer, lookup texture) or
\* the sky fallback; inputs a shader does not read are held at one value.
FragmentShaderInputs ==
    [pixelShaderType : {"Opaque"},
     texel : OrdinaryTexels, texel1 : {40}, lightLevel : LightLevels, reflectedPixelIndex : {-1}]
    \cup
    [pixelShaderType : {"AlphaTested", "AlphaTestedWithVariableTexCoordUMin",
                        "AlphaTestedWithVariableTexCoordVMin", "AlphaTestedWithLightLevelColor",
                        "OpaqueWithAlphaTestLayer", "AlphaTestedWithPaletteIndexLookup"},
     texel : AlphaTestTexels, texel1 : {40}, lightLevel : LightLevels, reflectedPixelIndex : {-1}]
    \cup
    [pixelShaderType : {"AlphaTestedWithLightLevelOpacity"},
     texel : AlphaTestTexels \cup {PALETTE_INDEX_LIGHT_LEVEL_LOWEST + 1,
                                   PALETTE_INDEX_LIGHT_LEVEL_SRC1},
     texel1 : {40}, lightLevel : LightLevels, reflectedPixelIndex : {-1}]
    \cup
    [pixelShaderType : {"AlphaTestedWithPreviousBrightnessLimit"},
     texel : AlphaTestTexels, texel1 : {40}, lightLevel : {0}, reflectedPixelIndex : {-1}]
    \cup
    [pixelShaderType : {"AlphaTestedWithHorizonMirror"},
     texel : AlphaTestTexels \cup {PALETTE_INDEX_PUDDLE_EVEN_ROW},
     texel1 : {40}, lightLevel : {0},
     reflectedPixelIndex : {-1} \cup Pixels]

\* The AlphaTested* pixel shader variants
IsAlphaTestedVariant(pixelShaderType) ==
    pixelShaderType \notin {"Opaque", "OpaqueWithAlphaTestLayer"}

\* Mutation: every fragment passes.
PassesDepthTest_Always(ndcZDepth, storedDepth) == TRUE

\* passesDepthTest = shaderPerspective.ndcZDepth < g_depthBuffer[pixelIndex]
PassesDepthTest(ndcZDepth, storedDepth) == ndcZDepth < storedDepth

DitheringModes == {"None", "Classic", "Modern"}

DITHERING_MODERN_MASK_COUNT == 4

\* The mask of one pixel: shouldDither of Classic, shouldDither0..3 of Modern.
DitherPixel(x, y, mode, mask) ==
    IF mode = "Classic" THEN ((x + y) % 2) = 0
    ELSE CASE mask = 0 -> (((x + y) % 2) = 0) \/ (((x % 2) = 1) /\ ((y % 2) = 0))
           [] mask = 1 -> ((x + y) % 2) = 0
           [] mask = 2 -> ((x % 2) = 0) /\ ((y % 2) = 0)
           [] OTHER -> FALSE

\* CreateDitherBuffer(ditherBuffer, width, height, ditheringMode)
CreateDitherBuffer(width, height, mode) ==
    LET depth == CASE mode = "Classic" -> 1
                   [] mode = "Modern" -> DITHERING_MODERN_MASK_COUNT
                   [] OTHER -> 0
    IN IF depth = 0
       THEN [width |-> 0, height |-> 0, depth |-> 0, bits |-> [i \in {} |-> FALSE]]
       ELSE [width |-> width, height |-> height, depth |-> depth,
             bits |-> [i \in 0..((width * height * depth) - 1) |->
                          DitherPixel(i % width, (i \div width) % height, mode,
                                      i \div (width * height))]]

\* Mutation: submitFrame never rebuilds the mask.
DitheringModeChanged_Never(current, requested) == FALSE

\* if (this->ditheringMode != settings.ditheringMode)
DitheringModeChanged(current, requested) == current # requested

\* No frame has been submitted (the other specifications).
PixelIdle ==
    /\ paletteTextureID = 0
    /\ paletteIndexBuffer = [p \in 0..(FrameBufferPixelCount - 1) |-> 0]
    /\ depthBuffer = [p \in 0..(FrameBufferPixelCount - 1) |-> DepthInfinity]
    /\ colorBuffer = [p \in 0..(FrameBufferPixelCount - 1) |-> ClearColor]
    /\ transparentFragment = <<>>
    /\ opaqueOnly = TRUE
    /\ opaqueFragments = <<>>
    /\ frameBufferWidth = FrameBufferPixelCount
    /\ frameBufferHeight = 1
    /\ frameFollowsResize = FALSE
    /\ ditheringMode = "None"
    /\ ditherBuffer = CreateDitherBuffer(FrameBufferPixelCount, 1, "None")
    /\ frameDitheringMode = "None"
    /\ pixelPc = "idle"

PixelInit == PixelIdle

\* std::fill(buffer, buffer + count, value)
Fill(buffer, count, value) ==
    [p \in DOMAIN buffer |-> IF p < count THEN value ELSE buffer[p]]

\* submitFrame up to the draw call loop: the frame's palette is selected and
\* ClearFrameBuffers runs.
PixelBeginFrameOf(settingsDitheringModes) ==
    /\ \E id \in PaletteTextureIDs : paletteTextureID' = id
    /\ \E requested \in settingsDitheringModes :
          /\ frameDitheringMode' = requested
          /\ IF DitheringModeChanged(ditheringMode, requested)
             THEN /\ ditheringMode' = requested
                  /\ ditherBuffer' =
                        CreateDitherBuffer(frameBufferWidth, frameBufferHeight, requested)
             ELSE UNCHANGED <<ditheringMode, ditherBuffer>>
    /\ LET frameBufferPixelCount == PixelCount(frameBufferWidth, frameBufferHeight)
       IN /\ paletteIndexBuffer' = Fill(paletteIndexBuffer, frameBufferPixelCount, 0)
          /\ depthBuffer' = Fill(depthBuffer, frameBufferPixelCount, DepthInfinity)
          /\ colorBuffer' = Fill(colorBuffer, frameBufferPixelCount, ClearColor)
    /\ transparentFragment' = <<>>
    /\ opaqueOnly' = TRUE
    /\ opaqueFragments' = <<>>
    /\ frameFollowsResize' = (pixelPc = "resized")
    /\ pixelPc' = "frame"
    /\ UNCHANGED <<frameBufferWidth, frameBufferHeight>>

\* Frames submitted without dithering
PixelBeginFrame == PixelBeginFrameOf({"None"})

\* RasterizeMeshInternal, one covered pixel of one triangle: depth test,
\* pixel shader, colour write.
\* Mutation: the colour is looked up in the first palette, not the frame's.
ColorBufferWrite_FirstPalette(textureID, writtenPaletteIndex) ==
    PaletteColors(0, writtenPaletteIndex)

\* g_colorBuffer[pixelIndex] = shaderFrameBuffer.palette.colors[writtenPaletteIndex]
ColorBufferWrite(textureID, writtenPaletteIndex) ==
    PaletteColors(textureID, writtenPaletteIndex)

\* if constexpr (enableDepthWrite) at the end of every pixel shader
WritesDepth_Always(written, enableDepthWrite) == written

WritesDepth(written, enableDepthWrite) == written /\ enableDepthWrite

RasterizePixelOf(fragments, depthReads, depthWrites) ==
    /\ pixelPc = "frame"
    /\ \E pixelIndex \in Pixels, ndcZDepth \in NdcDepths,
          enableDepthRead \in depthReads, enableDepthWrite \in depthWrites,
          fragment \in fragments :
        LET passesDepthTest ==
                enableDepthRead => PassesDepthTest(ndcZDepth, depthBuffer[pixelIndex])
            prevFrameBufferPixel == paletteIndexBuffer[pixelIndex]
            mirroredTexel ==
                IF fragment.reflectedPixelIndex \in Pixels
                THEN paletteIndexBuffer[fragment.reflectedPixelIndex] ELSE 0
            result == PixelShader(fragment, prevFrameBufferPixel,
                                  PaletteColors(paletteTextureID, prevFrameBufferPixel),
                                  mirroredTexel)
            writtenPaletteIndex ==
                IF result.written THEN result.texel ELSE prevFrameBufferPixel
            isTrackedOpaque ==
                /\ opaqueOnly
                /\ fragment.pixelShaderType = "Opaque"
                /\ enableDepthRead
                /\ Len(opaqueFragments) < 2
        IN  /\ IF passesDepthTest
               THEN /\ paletteIndexBuffer' =
                          [paletteIndexBuffer EXCEPT ![pixelIndex] = writtenPaletteIndex]
                    /\ depthBuffer' =
                          IF WritesDepth(result.written, enableDepthWrite)
                          THEN [depthBuffer EXCEPT ![pixelIndex] = ndcZDepth]
                          ELSE depthBuffer
                    /\ colorBuffer' =
                          [colorBuffer EXCEPT ![pixelIndex] =
                              ColorBufferWrite(paletteTextureID, writtenPaletteIndex)]
               ELSE UNCHANGED <<paletteIndexBuffer, depthBuffer, colorBuffer>>
            /\ transparentFragment' =
                  IF /\ IsAlphaTestedVariant(fragment.pixelShaderType)
                     /\ fragment.texel = PALETTE_INDEX_TRANSPARENT
                  THEN <<[pixelIndex |-> pixelIndex,
                          pixelShaderType |-> fragment.pixelShaderType,
                          prevColor |-> colorBuffer[pixelIndex],
                          prevDepth |-> depthBuffer[pixelIndex]]>>
                  ELSE <<>>
            /\ opaqueOnly' = isTrackedOpaque
            /\ opaqueFragments' =
                  IF isTrackedOpaque
                  THEN Append(opaqueFragments,
                              [pixelIndex |-> pixelIndex,
                               ndcZDepth |-> ndcZDepth,
                               enableDepthWrite |-> enableDepthWrite,
                               color |-> PaletteColors(paletteTextureID,
                                            ShadedTexel(fragment.texel, fragment.lightLevel))])
                  ELSE <<>>
    /\ UNCHANGED <<paletteTextureID, frameBufferWidth, frameBufferHeight,
                   frameFollowsResize, ditheringMode, ditherBuffer, frameDitheringMode,
                   pixelPc>>

\* Any fragment of any draw call
RasterizePixel == RasterizePixelOf(FragmentShaderInputs, BOOLEAN, BOOLEAN)

PixelNext == PixelBeginFrame \/ RasterizePixel

\* Frame buffer sizes resize is called with: <<width, height>>
ResizeSizes == {<<1, 1>>, <<2, 1>>, <<1, 2>>}

\* Colours the caller's output buffer may hold when a frame is submitted
StaleColors == {ClearColor, PaletteColors(1, 200)}

\* SoftwareRenderer::resize(width, height): the palette index and depth
\* buffers are re-created at the new size and filled; the output buffer the
\* next submitFrame is given has the new size and unspecified contents.
Resize ==
    /\ \E size \in ResizeSizes :
          LET newPixels == 0..((size[1] * size[2]) - 1)
          IN /\ frameBufferWidth' = size[1]
             /\ frameBufferHeight' = size[2]
             /\ paletteIndexBuffer' = [p \in newPixels |-> 0]
             /\ depthBuffer' = [p \in newPixels |-> DepthInfinity]
             /\ colorBuffer' \in [newPixels -> StaleColors]
             /\ ditherBuffer' = CreateDitherBuffer(size[1], size[2], ditheringMode)
    /\ transparentFragment' = <<>>
    /\ opaqueOnly' = TRUE
    /\ opaqueFragments' = <<>>
    /\ frameFollowsResize' = FALSE
    /\ pixelPc' = "resized"
    /\ UNCHANGED <<paletteTextureID, ditheringMode, frameDitheringMode>>

\* SoftwareRenderer::init(settings): the buffers are created at the size of
\* the settings and the mask for the dithering mode of the settings.
RendererInit ==
    /\ \E size \in ResizeSizes, mode \in DitheringModes :
          LET newPixels == 0..((size[1] * size[2]) - 1)
          IN /\ frameBufferWidth' = size[1]
             /\ frameBufferHeight' = size[2]
             /\ paletteIndexBuffer' = [p \in newPixels |-> 0]
             /\ depthBuffer' = [p \in newPixels |-> 0]
             /\ colorBuffer' \in [newPixels -> StaleColors]
             /\ ditherBuffer' = CreateDitherBuffer(size[1], size[2], mode)
             /\ ditheringMode' = mode
    /\ transparentFragment' = <<>>
    /\ opaqueOnly' = TRUE
    /\ opaqueFragments' = <<>>
    /\ frameFollowsResize' = FALSE
    /\ pixelPc' = "initialized"
    /\ UNCHANGED <<paletteTextureID, frameDitheringMode>>

\* Opaque fragments drawn with depth read and depth write
OpaqueFragmentInputs ==
    [pixelShaderType : {"Opaque"}, texel : {40, 200}, texel1 : {40},
     lightLevel : {0}, reflectedPixelIndex : {-1}]

\* Frames of opaque draw calls, with resizes in between
ResizeNext ==
    \/ PixelBeginFrameOf(DitheringModes)
    \/ RasterizePixelOf(OpaqueFragmentInputs, {TRUE}, {TRUE})
    \/ Resize
    \/ RendererInit

\* ------------------------------------------------------------------------
\* Dispatch on enum values
\* ------------------------------------------------------------------------
\* static_cast<int> of the first value after the last vertex shader type
UnknownVertexShaderType == "3"

\* static_cast<int> of the first value after PIXEL_SHADER_TYPE_MAX
UnknownPixelShaderType == "10"

RenderLightingTypes == {"PerMesh", "PerPixel"}

\* Bytes per texel a texture is created with (DebugAssert(bytesPerTexel > 0))
BytesPerTexelValues == {1, 2, 3, 4}

\* std::to_string of a small positive int
IntToString(n) == <<"1", "2", "3", "4", "5">>[n]

\* DebugNotImplementedMsg(message): logs the message and ends the process.
DebugNotImplementedMsg(message) == message

\* ObjectTexture::init: the switch on bytesPerTexel.
ObjectTextureInit(bytesPerTexel) ==
    CASE bytesPerTexel = 1 -> [texels |-> "texels8Bit", crash |-> ""]
      [] bytesPerTexel = 4 -> [texels |-> "texels32Bit", crash |-> ""]
      [] OTHER -> [texels |-> "nullptr",
                   crash |-> DebugNotImplementedMsg(IntToString(bytesPerTexel))]

\* RasterizeMeshDispatchPixelShaderType: the switch on the pixel shader type;
\* it has one case per enum value and no default.
RasterizeMeshDispatchPixelShaderType(lightingType, pixelShaderType) ==
    IF pixelShaderType \in PixelShaderTypes
    THEN [ran |-> pixelShaderType, crash |-> ""]
    ELSE [ran |-> "nothing", crash |-> ""]

\* RasterizeMesh: the lighting type selects the template instance.
RasterizeMesh(lightingType, pixelShaderType) ==
    IF lightingType = "PerMesh"
    THEN RasterizeMeshDispatchPixelShaderType("PerMesh", pixelShaderType)
    ELSE IF lightingType = "PerPixel"
         THEN RasterizeMeshDispatchPixelShaderType("PerPixel", pixelShaderType)
         ELSE [ran |-> "nothing", crash |-> ""]

NoDispatch == [kind |-> "none", value |-> "", lightingType |-> ""]

DispatchIdle ==
    /\ dispatchLog = <<>>
    /\ lastDispatch = NoDispatch
    /\ crashMessage = ""

DispatchInit == DispatchIdle

\* The process runs: no crash so far.
DispatchRunning == crashMessage = "" /\ Len(dispatchLog) < MaxDispatches

\* tryCreateObjectTexture -> ObjectTexture::init(width, height, bytesPerTexel)
DispatchObjectTextureInit ==
    /\ DispatchRunning
    /\ \E bytesPerTexel \in BytesPerTexelValues :
          LET result == ObjectTextureInit(bytesPerTexel)
          IN /\ lastDispatch' = [kind |-> "bytesPerTexel",
                                 value |-> IntToString(bytesPerTexel),
                                 lightingType |-> ""]
             /\ dispatchLog' = Append(dispatchLog, result.texels)
             /\ crashMessage' = result.crash

\* submitFrame -> ProcessVertexShaders(meshCount, vertexShaderType)
DispatchVertexShaders ==
    /\ DispatchRunning
    /\ \E type \in VertexShaderTypes \cup {UnknownVertexShaderType} :
          LET result == ProcessVertexShaders(1, type)
          IN /\ lastDispatch' = [kind |-> "vertexShaderType", value |-> type,
                                 lightingType |-> ""]
             /\ dispatchLog' = Append(dispatchLog, result[1])
             /\ crashMessage' = IF result[1] = "DebugNotImplemented"
                                THEN DebugNotImplementedMsg(type) ELSE ""

\* submitFrame -> RasterizeMesh(meshIndex, textures)
DispatchRasterizeMesh ==
    /\ DispatchRunning
    /\ \E lightingType \in RenderLightingTypes,
          pixelShaderType \in PixelShaderTypes \cup {UnknownPixelShaderType} :
          LET result == RasterizeMesh(lightingType, pixelShaderType)
          IN /\ lastDispatch' = [kind |-> "pixelShaderType", value |-> pixelShaderType,
                                 lightingType |-> lightingType]
             /\ dispatchLog' = Append(dispatchLog, result.ran)
             /\ crashMessage' = result.crash

DispatchNext ==
    \/ DispatchObjectTextureInit
    \/ DispatchVertexShaders
    \/ DispatchRasterizeMesh

\* ------------------------------------------------------------------------
\* Resource pools
\* ------------------------------------------------------------------------
\* IDs a pool hands out
PoolSlots == 0..(PoolCapacity - 1)

FreeSlot == [used |-> FALSE, values |-> <<>>]

EmptyPool == [id \in PoolSlots |-> FreeSlot]

\* IDs of the pool that are allocated
UsedSlots(pool) == {id \in PoolSlots : pool[id].used}

\* RecyclablePool::tryAlloc: the lowest free ID, or failure when none is free.
TryAlloc(pool) ==
    IF UsedSlots(pool) = PoolSlots
    THEN [ok |-> FALSE, id |-> 0]
    ELSE [ok |-> TRUE, id |-> CHOOSE id \in PoolSlots \ UsedSlots(pool) :
                                 \A other \in PoolSlots \ UsedSlots(pool) : id <= other]

\* RecyclablePool::free
PoolFree(pool, id) == [pool EXCEPT ![id] = FreeSlot]

\* Buffer<T>::init(count)
BufferInit(count) == [i \in 1..count |-> 0]

\* VertexBuffer::init
VertexBufferInit(vertexCount, componentsPerVertex) ==
    [used |-> TRUE, values |-> BufferInit(vertexCount * componentsPerVertex)]

\* UniformBuffer::init; getValidByteCount() is elementCount * sizeOfElement
UniformBufferInit(elementCount, sizeOfElement) ==
    [used |-> TRUE, values |-> BufferInit(elementCount * sizeOfElement),
     sizeOfElement |-> sizeOfElement]

\* Light::Light
NewLight == [used |-> TRUE, values |-> <<>>]

\* Mutation: the failed allocation does not return early.
TryCreateVertexBuffer_InitOnFailure(pool, vertexCount, componentsPerVertex) ==
    LET alloc == TryAlloc(pool)
    IN [returned |-> alloc.ok,
        pool |-> [pool EXCEPT ![alloc.id] = VertexBufferInit(vertexCount, componentsPerVertex)]]

\* SoftwareRenderer::tryCreateVertexBuffer
TryCreateVertexBuffer(pool, vertexCount, componentsPerVertex) ==
    LET alloc == TryAlloc(pool)
    IN IF ~alloc.ok
       THEN [returned |-> FALSE, pool |-> pool]
       ELSE [returned |-> TRUE,
             pool |-> [pool EXCEPT ![alloc.id] = VertexBufferInit(vertexCount, componentsPerVertex)]]

\* SoftwareRenderer::tryCreateUniformBuffer
TryCreateUniformBuffer(pool, elementCount, sizeOfElement) ==
    LET alloc == TryAlloc(pool)
    IN IF ~alloc.ok
       THEN [returned |-> FALSE, pool |-> pool]
       ELSE [returned |-> TRUE,
             pool |-> [pool EXCEPT ![alloc.id] = UniformBufferInit(elementCount, sizeOfElement)]]

\* SoftwareRenderer::tryCreateLight
TryCreateLight(pool) ==
    LET alloc == TryAlloc(pool)
    IN IF ~alloc.ok
       THEN [returned |-> FALSE, pool |-> pool]
       ELSE [returned |-> TRUE, pool |-> [pool EXCEPT ![alloc.id] = NewLight]]

\* Mutation: a shorter source is accepted.
PopulateSizesMatch_AtMost(srcCount, dstCount) == srcCount <= dstCount

\* populate*: srcCount != dstCount logs an error and returns.
PopulateSizesMatch(srcCount, dstCount) == srcCount = dstCount

\* std::copy(srcBegin, srcEnd, buffer.begin())
Copy(src, values) == [i \in DOMAIN values |-> IF i <= Len(src) THEN src[i] ELSE values[i]]

\* populateVertexBuffer / populateUniformBuffer on the buffer the ID names
PopulateBuffer(buffer, src) ==
    IF ~PopulateSizesMatch(Len(src), Len(buffer.values))
    THEN buffer
    ELSE [buffer EXCEPT !.values = Copy(src, buffer.values)]

\* The offsets from buffer.begin() that std::copy(srcBegin, srcEnd, dstBegin)
\* writes, dstBegin being buffer.begin() + (dstByteCount * uniformIndex).
UniformWrittenBytes(buffer, uniformIndex, src) ==
    IF Len(src) # buffer.sizeOfElement THEN {}
    ELSE { (buffer.sizeOfElement * uniformIndex) + k : k \in 0..(Len(src) - 1) }

\* populateUniformAtIndex on the buffer the ID names. Of a write outside the
\* buffer, the model keeps the part that falls inside it.
PopulateUniformAtIndex(buffer, uniformIndex, src) ==
    LET written == UniformWrittenBytes(buffer, uniformIndex, src)
        dstBegin == buffer.sizeOfElement * uniformIndex
    IN [buffer EXCEPT !.values =
           [i \in DOMAIN buffer.values |->
               IF (i - 1) \in written THEN src[i - dstBegin] ELSE buffer.values[i]]]

\* The uniformIndex arguments of populateUniformAtIndex calls
UniformIndices == (-1)..2

\* Data a caller populates a buffer with
PopulateSources == {[i \in 1..n |-> 1] : n \in 1..3}

NoPoolCall == [op |-> "none", id |-> 0, srcCount |-> 0, returned |-> TRUE]

PoolIdle ==
    /\ vertexBuffers = EmptyPool
    /\ uniformBuffers = EmptyPool
    /\ lights = EmptyPool
    /\ lastPoolCall = NoPoolCall

PoolInit == PoolIdle

TryCreateVertexBufferCall ==
    \E vertexCount \in {1}, componentsPerVertex \in {2, 3} :
        LET result == TryCreateVertexBuffer(vertexBuffers, vertexCount, componentsPerVertex)
        IN /\ vertexBuffers' = result.pool
           /\ lastPoolCall' = [op |-> "tryCreateVertexBuffer", id |-> 0, srcCount |-> 0,
                               returned |-> result.returned]
           /\ UNCHANGED <<uniformBuffers, lights>>

PopulateVertexBufferCall ==
    \E id \in UsedSlots(vertexBuffers), src \in PopulateSources :
        /\ vertexBuffers' = [vertexBuffers EXCEPT ![id] = PopulateBuffer(vertexBuffers[id], src)]
        /\ lastPoolCall' = [op |-> "populateVertexBuffer", id |-> id, srcCount |-> Len(src),
                            returned |-> TRUE]
        /\ UNCHANGED <<uniformBuffers, lights>>

FreeVertexBufferCall ==
    \E id \in UsedSlots(vertexBuffers) :
        /\ vertexBuffers' = PoolFree(vertexBuffers, id)
        /\ lastPoolCall' = [op |-> "freeVertexBuffer", id |-> id, srcCount |-> 0,
                            returned |-> TRUE]
        /\ UNCHANGED <<uniformBuffers, lights>>

TryCreateUniformBufferCall ==
    \E elementCount \in {2}, sizeOfElement \in {1} :
        LET result == TryCreateUniformBuffer(uniformBuffers, elementCount, sizeOfElement)
        IN /\ uniformBuffers' = result.pool
           /\ lastPoolCall' = [op |-> "tryCreateUniformBuffer", id |-> 0, srcCount |-> 0,
                               returned |-> result.returned]
           /\ UNCHANGED <<vertexBuffers, lights>>

PopulateUniformBufferCall ==
    \E id \in UsedSlots(uniformBuffers), src \in PopulateSources :
        /\ uniformBuffers' = [uniformBuffers EXCEPT ![id] = PopulateBuffer(uniformBuffers[id], src)]
        /\ lastPoolCall' = [op |-> "populateUniformBuffer", id |-> id, srcCount |-> Len(src),
                            returned |-> TRUE]
        /\ UNCHANGED <<vertexBuffers, lights>>

PopulateUniformAtIndexCall ==
    \E id \in UsedSlots(uniformBuffers), uniformIndex \in UniformIndices,
       src \in PopulateSources :
        /\ uniformBuffers' =
               [uniformBuffers EXCEPT
                   ![id] = PopulateUniformAtIndex(uniformBuffers[id], uniformIndex, src)]
        /\ lastPoolCall' =
               [op |-> "populateUniformAtIndex", id |-> id, srcCount |-> Len(src),
                returned |-> TRUE, uniformIndex |-> uniformIndex,
                writtenBytes |-> UniformWrittenBytes(uniformBuffers[id], uniformIndex, src)]
        /\ UNCHANGED <<vertexBuffers, lights>>

FreeUniformBufferCall ==
    \E id \in UsedSlots(uniformBuffers) :
        /\ uniformBuffers' = PoolFree(uniformBuffers, id)
        /\ lastPoolCall' = [op |-> "freeUniformBuffer", id |-> id, srcCount |-> 0,
                            returned |-> TRUE]
        /\ UNCHANGED <<vertexBuffers, lights>>

TryCreateLightCall ==
    LET result == TryCreateLight(lights)
    IN /\ lights' = result.pool
       /\ lastPoolCall' = [op |-> "tryCreateLight", id |-> 0, srcCount |-> 0,
                           returned |-> result.returned]
       /\ UNCHANGED <<vertexBuffers, uniformBuffers>>

FreeLightCall ==
    \E id \in UsedSlots(lights) :
        /\ lights' = PoolFree(lights, id)
        /\ lastPoolCall' = [op |-> "freeLight", id |-> id, srcCount |-> 0, returned |-> TRUE]
        /\ UNCHANGED <<vertexBuffers, uniformBuffers>>

PoolNext ==
    \/ TryCreateVertexBufferCall
    \/ PopulateVertexBufferCall
    \/ FreeVertexBufferCall
    \/ TryCreateUniformBufferCall
    \/ PopulateUniformBufferCall
    \/ FreeUniformBufferCall
    \/ TryCreateLightCall
    \/ FreeLightCall

\* The calls on the uniform buffers
UniformNext ==
    \/ TryCreateUniformBufferCall
    \/ PopulateUniformBufferCall
    \/ PopulateUniformAtIndexCall
    \/ FreeUniformBufferCall

\* ------------------------------------------------------------------------
\* Per-pixel lighting
\* ------------------------------------------------------------------------
RLess(a, b) == (a[1] * b[2]) < (b[1] * a[2])

\* std::clamp(value, low, high)
RClamp(value, low, high) ==
    IF RLess(value, low) THEN low ELSE IF RLess(high, value) THEN high ELSE value

\* 1.0 / 0.0
RInfinity == <<1, 0>>

\* settings.ambientPercent of a frame
AmbientPercents == {R(0), RNorm(1, 4), RNorm(1, 2), R(1), RNorm(3, 2)}

\* Radii a light is given: 0 <= startRadius <= endRadius
LightRadii ==
    {radii \in (0..MaxRadius) \X (0..MaxRadius) : radii[1] <= radii[2]}

\* Distances from a light to the shaded point
LightDistances == {RNorm(n, 2) : n \in 0..((2 * MaxRadius) + 2)}

\* SoftwareRenderer::setLightRadius
SetLightRadius(startRadius, endRadius) ==
    [startRadius |-> R(startRadius),
     endRadius |-> R(endRadius),
     startEndRadiusDiff |-> R(endRadius - startRadius),
     startEndRadiusDiffRecip |->
        IF endRadius - startRadius = 0 THEN RInfinity
        ELSE RDiv(R(1), R(endRadius - startRadius))]

\* Mutation: the distance percent forgets to subtract the start radius.
LightIntensity_NoStartOffset(light, lightDistance) ==
    IF ~RLess(light.startRadius, lightDistance) THEN R(1)
    ELSE IF ~RLess(lightDistance, light.endRadius) THEN R(0)
    ELSE RClamp(RSub(R(1), RMul(lightDistance, light.startEndRadiusDiffRecip)), R(0), R(1))

\* The intensity of one light at the shaded point.
LightIntensity(light, lightDistance) ==
    IF ~RLess(light.startRadius, lightDistance) THEN R(1)
    ELSE IF ~RLess(lightDistance, light.endRadius) THEN R(0)
    ELSE LET lightDistancePercent ==
                 RMul(RSub(lightDistance, light.startRadius), light.startEndRadiusDiffRecip)
         IN RClamp(RSub(R(1), lightDistancePercent), R(0), R(1))

\* Mutation: the sum is never cut off at 1.0.
IsLightSumSaturated_Never(sum) == FALSE

\* if (lightIntensitySum >= 1.0)
IsLightSumSaturated(sum) == ~RLess(sum, R(1))

NoShadedLight ==
    [shaded |-> FALSE, startRadius |-> R(0), endRadius |-> R(0),
     lightDistance |-> R(0), lightIntensity |-> R(0)]

LightIdle ==
    /\ ambientPercent = R(0)
    /\ lightCount = 0
    /\ lightIndex = 0
    /\ lightIntensitySum = R(0)
    /\ shadedLight = NoShadedLight
    /\ shaderLightLevel = 0
    /\ lightDithered = FALSE
    /\ lightPc = "idle"

LightInit == LightIdle

\* static_cast<int>(value): truncation toward zero
RTruncate(value) ==
    IF value[1] >= 0 THEN value[1] \div value[2] ELSE -((-value[1]) \div value[2])

\* std::clamp(value, low, high) on ints
Clamp(value, low, high) == IF value < low THEN low ELSE IF value > high THEN high ELSE value

\* shaderLighting.lastLightLevel
LastLightLevel == LightLevelCount - 1

\* lastLightLevel - clamp(int(lightIntensitySum * lightLevelCountReal), 0, lastLightLevel)
SelectLightLevel(sum) ==
    LastLightLevel - Clamp(RTruncate(RMul(sum, R(LightLevelCount))), 0, LastLightLevel)

\* Mutation: the dithering step goes one row past the last light level.
DitherLightLevel_NoMin(level) == level + 1

\* std::min(shaderLighting.shaderLightLevel + 1, shaderLighting.lastLightLevel)
DitherLightLevel(level) == Min(level + 1, LastLightLevel)

\* meshLightPercent of a draw call lit per mesh
MeshLightPercents == {RNorm(-1, 2), R(0), RNorm(1, 2), R(1), RNorm(3, 2)}

\* A pixel of a per-pixel lit mesh: lightIntensitySum = g_ambientPercent.
LightBeginPixel ==
    /\ lightPc \in {"idle", "done", "shade"}
    /\ ambientPercent' \in AmbientPercents
    /\ lightCount' \in 0..MaxLights
    /\ lightIndex' = 0
    /\ lightIntensitySum' = ambientPercent'
    /\ shadedLight' = NoShadedLight
    /\ lightPc' = "loop"
    /\ UNCHANGED <<shaderLightLevel, lightDithered>>

\* One iteration of the loop over the lights of the draw call.
LightLoopStep ==
    /\ lightPc = "loop"
    /\ lightIndex < lightCount
    /\ \E radii \in LightRadii, lightDistance \in LightDistances :
          LET light == SetLightRadius(radii[1], radii[2])
              lightIntensity == LightIntensity(light, lightDistance)
              sum == RAdd(lightIntensitySum, lightIntensity)
          IN /\ shadedLight' = [shaded |-> TRUE,
                                startRadius |-> light.startRadius,
                                endRadius |-> light.endRadius,
                                lightDistance |-> lightDistance,
                                lightIntensity |-> lightIntensity]
             /\ IF IsLightSumSaturated(sum)
                THEN /\ lightIntensitySum' = R(1)
                     /\ lightPc' = "done"
                     /\ UNCHANGED lightIndex
                ELSE /\ lightIntensitySum' = sum
                     /\ lightIndex' = lightIndex + 1
                     /\ UNCHANGED lightPc
    /\ UNCHANGED <<ambientPercent, lightCount, shaderLightLevel, lightDithered>>

\* The loop ends with every light added.
LightLoopExit ==
    /\ lightPc = "loop"
    /\ ~(lightIndex < lightCount)
    /\ lightPc' = "done"
    /\ UNCHANGED <<ambientPercent, lightCount, lightIndex, lightIntensitySum, shadedLight,
                   shaderLightLevel, lightDithered>>

\* Per-pixel lighting: the light level of the sum, then the dithering step.
LightSelectLevel ==
    /\ lightPc = "done"
    /\ \E mode \in DitheringModes, ditherBit \in BOOLEAN :
          LET level == SelectLightLevel(lightIntensitySum)
              shouldDither ==
                  CASE mode = "Classic" -> ditherBit
                    [] mode = "Modern" -> RLess(lightIntensitySum, R(1)) /\ ditherBit
                    [] OTHER -> FALSE
          IN /\ shaderLightLevel' = IF shouldDither THEN DitherLightLevel(level) ELSE level
             /\ lightDithered' = shouldDither
    /\ lightPc' = "shade"
    /\ UNCHANGED <<ambientPercent, lightCount, lightIndex, lightIntensitySum, shadedLight>>

\* Per-mesh lighting: lightIntensitySum = meshLightPercent, no dithering.
LightPerMesh ==
    /\ lightPc \in {"idle", "done", "shade"}
    /\ \E meshLightPercent \in MeshLightPercents :
          /\ lightIntensitySum' = meshLightPercent
          /\ shaderLightLevel' = SelectLightLevel(meshLightPercent)
    /\ lightDithered' = FALSE
    /\ lightCount' = 0
    /\ lightIndex' = 0
    /\ shadedLight' = NoShadedLight
    /\ lightPc' = "shade"
    /\ UNCHANGED ambientPercent

LightNext ==
    \/ LightBeginPixel
    \/ LightLoopStep
    \/ LightLoopExit
    \/ LightSelectLevel
    \/ LightPerMesh

\* ------------------------------------------------------------------------
\* Front-facing processing and rasterization of a mesh's clipped triangles
\* ------------------------------------------------------------------------
\* std::floor and std::ceil
RFloor(value) == value[1] \div value[2]

RCeil(value) == -((-value[1]) \div value[2])

RMin(a, b) == IF RLess(b, a) THEN b ELSE a

RMax(a, b) == IF RLess(a, b) THEN b ELSE a

\* Vertex-shaded input vertices of the rasterized mesh: inside the frustum,
\* outside of its x = w plane, and the all-zero vertex.
RasterVertices ==
    { Vertex(0, 0, 0, 1, 0, 0),
      Vertex(1, -1, 1, 1, 1, 0),
      Vertex(-1, 1, 0, 2, 0, 1),
      Vertex(-1, -1, 0, 1, 0, 0),
      Vertex(1, 1, 0, 1, 1, 1),
      Vertex(3, 0, 0, 1, 1, 0),
      Vertex(2, 1, 0, 1, 1, 1),
      Vertex(2, -1, 0, 1, 0, 1),
      ZeroVertex }

RasterShadedTriangles == RasterVertices \X RasterVertices \X RasterVertices

\* The triangles that follow in the mesh: one facing the camera, one facing away.
RasterLaterTriangles ==
    { <<Vertex(-1, -1, 0, 1, 0, 0), Vertex(1, -1, 1, 1, 1, 0), Vertex(1, 1, 0, 1, 1, 1)>>,
      <<Vertex(-1, -1, 0, 1, 0, 0), Vertex(1, 1, 0, 1, 1, 1), Vertex(1, -1, 1, 1, 1, 0)>> }

RECURSIVE ClipTrianglesWithPlane(_, _)
\* One iteration of the plane loop: every waiting triangle is clipped against
\* the plane, the results wait for the next plane.
ClipTrianglesWithPlane(tris, plane) ==
    IF tris = <<>> THEN <<>>
    ELSE ClipTriangleWithPlane(Head(tris), plane) \o ClipTrianglesWithPlane(Tail(tris), plane)

RECURSIVE ClipWithPlanesFrom(_, _)
\* The triangles left after the planes from the given one on.
ClipWithPlanesFrom(tris, plane) ==
    IF plane = ClipPlaneCount THEN tris
    ELSE ClipWithPlanesFrom(ClipTrianglesWithPlane(tris, plane), plane + 1)

RECURSIVE ProcessClipping(_, _)
\* The clip space mesh of the shaded triangles from the given one on: each
\* entry is a clipped triangle and the index of the triangle it came from.
ProcessClipping(shaded, from) ==
    IF from > Len(shaded) THEN <<>>
    ELSE LET results == ClipWithPlanesFrom(<<shaded[from]>>, 0)
         IN [i \in 1..Len(results) |-> [triangle |-> results[i], source |-> from]]
            \o ProcessClipping(shaded, from + 1)

NdcXToScreenSpace(ndcX, frameWidth) ==
    RMul(RAdd(<<1, 2>>, RMul(ndcX, <<1, 2>>)), R(frameWidth))

NdcYToScreenSpace(ndcY, frameHeight) ==
    RMul(RSub(<<1, 2>>, RMul(ndcY, <<1, 2>>)), R(frameHeight))

\* Screen space XY of a clip space vertex whose w is not zero.
ScreenSpacePoint(vertex) ==
    LET wRecip == RDiv(R(1), vertex[4])
    IN <<NdcXToScreenSpace(RMul(vertex[1], wRecip), RasterFrameWidth),
         NdcYToScreenSpace(RMul(vertex[2], wRecip), RasterFrameHeight)>>

Double2_DotN(x0, y0, x1, y1) == RAdd(RMul(x0, x1), RMul(y0, y1))

Double2_CrossN_Negated(x0, y0, x1, y1) == RSub(RMul(y0, x1), RMul(x0, y1))

Double2_CrossN(x0, y0, x1, y1) == RSub(RMul(x0, y1), RMul(y0, x1))

\* The edges between three screen space points.
ScreenSpaceEdges(p0, p1, p2) ==
    [screenSpace0 |-> p0, screenSpace1 |-> p1, screenSpace2 |-> p2,
     screenSpace01 |-> <<RSub(p1[1], p0[1]), RSub(p1[2], p0[2])>>,
     screenSpace12 |-> <<RSub(p2[1], p1[1]), RSub(p2[2], p1[2])>>,
     screenSpace20 |-> <<RSub(p0[1], p2[1]), RSub(p0[2], p2[2])>>]

\* The screen space points and edges of a clip space triangle.
ScreenSpaceTriangle(tri) ==
    ScreenSpaceEdges(ScreenSpacePoint(tri[1]), ScreenSpacePoint(tri[2]),
                     ScreenSpacePoint(tri[3]))

\* The sum of the three edge cross products is positive.
IsScreenSpaceFrontFacing(s) ==
    LET screenSpace01Cross12 ==
            Double2_CrossN(s.screenSpace12[1], s.screenSpace12[2],
                           s.screenSpace01[1], s.screenSpace01[2])
        screenSpace12Cross20 ==
            Double2_CrossN(s.screenSpace20[1], s.screenSpace20[2],
                           s.screenSpace12[1], s.screenSpace12[2])
        screenSpace20Cross01 ==
            Double2_CrossN(s.screenSpace01[1], s.screenSpace01[2],
                           s.screenSpace20[1], s.screenSpace20[2])
    IN RLess(R(0), RAdd(RAdd(screenSpace01Cross12, screenSpace12Cross20),
                        screenSpace20Cross01))

\* A w of zero (the all-zero vertex is the only one clipping lets through)
\* makes every NDC of the vertex NaN, and a comparison with NaN is false.
IsFrontFacing(tri) ==
    /\ \A i \in 1..3 : tri[i][4][1] # 0
    /\ IsScreenSpaceFrontFacing(ScreenSpaceTriangle(tri))

getLowerBoundedPixel(projected, frameDim) ==
    Clamp(RCeil(RSub(projected, <<1, 2>>)), 0, frameDim)

getUpperBoundedPixel(projected, frameDim) ==
    Clamp(RFloor(RAdd(projected, <<1, 2>>)), 0, frameDim)

\* Double2_RightPerpN
RightPerp(edge) == <<edge[2], RNeg(edge[1])>>

\* The rasterizer triangle of a screen space triangle: points, edge
\* perpendiculars and the pixel bounding box.
ScreenSpaceRasterizerTriangle(s, triangleIndex, source) ==
    LET xMin == RMin(s.screenSpace0[1], RMin(s.screenSpace1[1], s.screenSpace2[1]))
        xMax == RMax(s.screenSpace0[1], RMax(s.screenSpace1[1], s.screenSpace2[1]))
        yMin == RMin(s.screenSpace0[2], RMin(s.screenSpace1[2], s.screenSpace2[2]))
        yMax == RMax(s.screenSpace0[2], RMax(s.screenSpace1[2], s.screenSpace2[2]))
    IN [screenSpace0 |-> s.screenSpace0,
        screenSpace1 |-> s.screenSpace1,
        screenSpace2 |-> s.screenSpace2,
        screenSpace01Perp |-> RightPerp(s.screenSpace01),
        screenSpace12Perp |-> RightPerp(s.screenSpace12),
        screenSpace20Perp |-> RightPerp(s.screenSpace20),
        xStart |-> getLowerBoundedPixel(xMin, RasterFrameWidth),
        xEnd |-> getUpperBoundedPixel(xMax, RasterFrameWidth),
        yStart |-> getLowerBoundedPixel(yMin, RasterFrameHeight),
        yEnd |-> getUpperBoundedPixel(yMax, RasterFrameHeight),
        triangleIndex |-> triangleIndex,
        source |-> source]

\* The rasterizer triangle of a front-facing clip space triangle.
RasterizerTriangle(tri, triangleIndex, source) ==
    ScreenSpaceRasterizerTriangle(ScreenSpaceTriangle(tri), triangleIndex, source)

HasPositiveScreenArea(triangle) ==
    (triangle.xEnd > triangle.xStart) /\ (triangle.yEnd > triangle.yStart)

IsScreenSpacePointInHalfSpace(pointX, pointY, planePointX, planePointY, planeNormalX, planeNormalY) ==
    ~RLess(Double2_DotN(RSub(pointX, planePointX), RSub(pointY, planePointY),
                        planeNormalX, planeNormalY), R(0))

\* A triangle is written to the rasterizer cache only with a positive
\* screen area.
WithPositiveScreenArea(triangles, triangle) ==
    IF ~HasPositiveScreenArea(triangle) THEN triangles ELSE Append(triangles, triangle)

\* The pixels the two loops of the rasterizer go through for a triangle.
VisitedPixels_Inclusive(triangle) ==
    (triangle.xStart..triangle.xEnd) \X (triangle.yStart..triangle.yEnd)

VisitedPixels(triangle) ==
    (triangle.xStart..(triangle.xEnd - 1)) \X (triangle.yStart..(triangle.yEnd - 1))

\* The pixel center is inside the triangle.
IsPixelCovered(triangle, x, y) ==
    LET pixelCenterX == <<(2 * x) + 1, 2>>
        pixelCenterY == <<(2 * y) + 1, 2>>
    IN /\ IsScreenSpacePointInHalfSpace(pixelCenterX, pixelCenterY,
               triangle.screenSpace0[1], triangle.screenSpace0[2],
               triangle.screenSpace01Perp[1], triangle.screenSpace01Perp[2])
       /\ IsScreenSpacePointInHalfSpace(pixelCenterX, pixelCenterY,
               triangle.screenSpace1[1], triangle.screenSpace1[2],
               triangle.screenSpace12Perp[1], triangle.screenSpace12Perp[2])
       /\ IsScreenSpacePointInHalfSpace(pixelCenterX, pixelCenterY,
               triangle.screenSpace2[1], triangle.screenSpace2[2],
               triangle.screenSpace20Perp[1], triangle.screenSpace20Perp[2])

\* What the rasterizer does at one pixel of a triangle's bounding box.
PixelVisit(triangle, x, y) ==
    [x |-> x, y |-> y, pixelIndex |-> x + (y * RasterFrameWidth),
     covered |-> IsPixelCovered(triangle, x, y),
     triangleIndex |-> triangle.triangleIndex, source |-> triangle.source]

RasterIdle ==
    /\ rasterShaded = <<>>
    /\ clipSpaceMeshTriangles = <<>>
    /\ rasterTriangleIndex = 0
    /\ rasterizerTriangles = <<>>
    /\ rasterizerTriangleCount = 0
    /\ rasterVisits = {}
    /\ rasterPc = "idle"

RasterInit == RasterIdle

\* Clipping has filled the clip space mesh of the draw call.
RasterBeginMesh ==
    /\ rasterPc = "idle"
    /\ \E first \in RasterShadedTriangles, later \in RasterLaterTriangles :
          /\ rasterShaded' = <<first, later>>
          /\ clipSpaceMeshTriangles' = ProcessClipping(<<first, later>>, 1)
    /\ rasterTriangleIndex' = 0
    /\ rasterizerTriangles' = <<>>
    /\ rasterizerTriangleCount' = 0
    /\ rasterVisits' = {}
    /\ rasterPc' = "frontFacing"

\* One iteration of the triangle loop of ProcessClipSpaceTrianglesForFrontFacing.
RasterFrontFacingStep ==
    /\ rasterPc = "frontFacing"
    /\ rasterTriangleIndex < Len(clipSpaceMeshTriangles)
    /\ LET entry == clipSpaceMeshTriangles[rasterTriangleIndex + 1]
       IN rasterizerTriangles' =
              IF ~IsFrontFacing(entry.triangle) THEN rasterizerTriangles
              ELSE WithPositiveScreenArea(rasterizerTriangles,
                       RasterizerTriangle(entry.triangle, rasterTriangleIndex, entry.source))
    /\ rasterTriangleIndex' = rasterTriangleIndex + 1
    /\ UNCHANGED <<rasterShaded, clipSpaceMeshTriangles, rasterizerTriangleCount,
                   rasterVisits, rasterPc>>

\* g_rasterizerCache.triangleCounts[meshIndex] = writeIndex;
RasterFrontFacingEnd ==
    /\ rasterPc = "frontFacing"
    /\ rasterTriangleIndex = Len(clipSpaceMeshTriangles)
    /\ rasterizerTriangleCount' = Len(rasterizerTriangles)
    /\ rasterTriangleIndex' = 0
    /\ rasterPc' = "rasterize"
    /\ UNCHANGED <<rasterShaded, clipSpaceMeshTriangles, rasterizerTriangles, rasterVisits>>

\* One iteration of the triangle loop of RasterizeMeshInternal: the y and x
\* loops over the bounding box of the triangle.
RasterizeTriangle ==
    /\ rasterPc = "rasterize"
    /\ rasterTriangleIndex < rasterizerTriangleCount
    /\ LET triangle == rasterizerTriangles[rasterTriangleIndex + 1]
       IN rasterVisits' = rasterVisits \cup
              { PixelVisit(triangle, p[1], p[2]) : p \in VisitedPixels(triangle) }
    /\ rasterTriangleIndex' = rasterTriangleIndex + 1
    /\ UNCHANGED <<rasterShaded, clipSpaceMeshTriangles, rasterizerTriangles,
                   rasterizerTriangleCount, rasterPc>>

RasterizeEnd ==
    /\ rasterPc = "rasterize"
    /\ rasterTriangleIndex = rasterizerTriangleCount
    /\ rasterPc' = "done"
    /\ UNCHANGED <<rasterShaded, clipSpaceMeshTriangles, rasterTriangleIndex,
                   rasterizerTriangles, rasterizerTriangleCount, rasterVisits>>

RasterNext ==
    \/ RasterBeginMesh
    \/ RasterFrontFacingStep
    \/ RasterFrontFacingEnd
    \/ RasterizeTriangle
    \/ RasterizeEnd

\* ------------------------------------------------------------------------
\* Staging a batch into the vertex shading cache and vertex shading
\* ------------------------------------------------------------------------
MAX_DRAW_CALL_MESH_TRIANGLES == 1024

MAX_VERTEX_SHADING_CACHE_TRIANGLES == MAX_DRAW_CALL_MESH_TRIANGLES * 2

TYPICAL_LOOP_UNROLL == 4

GetUnrollAdjustedLoopCount(loopCount, unrollCount) == loopCount - (unrollCount - 1)

\* indexBuffer.triangleCount of the meshes a draw call can bring.
MeshTriangleCounts == {1, 3, MAX_DRAW_CALL_MESH_TRIANGLES}

\* The draw call sequences submitFrame can form (the index buffer triangle
\* count of each mesh): 1 to MaxBatchMeshes draw calls of one vertex shader.
Batches == UNION { [1..n -> MeshTriangleCounts] : n \in 1..MaxBatchMeshes }

\* The unshaded vertices and texture coordinates of triangle triangleIndex
\* of the mesh's index buffer.
IndexBufferTriangle(mesh, triangleIndex) == <<mesh, triangleIndex>>

\* What a read of a vertex shading cache entry that was written past the
\* end of the arrays can give instead of the written triangle.
StaleCacheTriangle == <<-1, -1>>

\* The vertex shader applied to a triangle with the transforms of a mesh.
VertexShader(mesh, triangle) == [transform |-> mesh, triangle |-> triangle]

\* The entry the lookup loop leaves at writeIndex of the vertex shading cache.
VertexShadingCacheEntry(mesh, triangleIndex, writeIndex, overrun) ==
    [meshProcessCacheIndex |-> mesh,
     triangle |-> IF writeIndex >= MAX_VERTEX_SHADING_CACHE_TRIANGLES /\ overrun = "lost"
                  THEN StaleCacheTriangle
                  ELSE IndexBufferTriangle(mesh, triangleIndex)]

ShadeIdle ==
    /\ batchMeshes = <<>>
    /\ lookupMeshIndex = 0
    /\ vertexShadingCache = <<>>
    /\ vertexShadingCacheTriangleCount = 0
    /\ stagingOverrun = "none"
    /\ triangleWriteCounts = <<>>
    /\ shadedTriangles = <<>>
    /\ shadeTriangleIndex = 0
    /\ shadePc = "idle"

ShadeInit == ShadeIdle

\* submitFrame has filled the mesh process caches of a draw call sequence;
\* ProcessMeshBufferLookups starts.
ShadeBeginBatch ==
    /\ shadePc \in {"idle", "shaded"}
    /\ \E batch \in Batches : batchMeshes' = batch
    /\ lookupMeshIndex' = 0
    /\ vertexShadingCache' = <<>>
    /\ vertexShadingCacheTriangleCount' = 0
    /\ stagingOverrun' = "none"
    /\ triangleWriteCounts' = <<>>
    /\ shadedTriangles' = <<>>
    /\ shadeTriangleIndex' = 0
    /\ shadePc' = "lookups"

\* One iteration of the mesh loop of ProcessMeshBufferLookups. The assertion
\* on the cache capacity aborts in builds that keep assertions; in the
\* others the triangles are written past the end of the cache arrays.
ShadeLookupMesh ==
    /\ shadePc = "lookups"
    /\ lookupMeshIndex < Len(batchMeshes)
    /\ LET meshTriangleCount == batchMeshes[lookupMeshIndex + 1]
           writeIndex == vertexShadingCacheTriangleCount
           stageMesh(overrun) ==
               /\ vertexShadingCache' = vertexShadingCache \o
                      [i \in 1..meshTriangleCount |->
                          VertexShadingCacheEntry(lookupMeshIndex, i - 1,
                                                  writeIndex + (i - 1), overrun)]
               /\ vertexShadingCacheTriangleCount' =
                      vertexShadingCacheTriangleCount + meshTriangleCount
               /\ stagingOverrun' = overrun
               /\ lookupMeshIndex' = lookupMeshIndex + 1
               /\ shadePc' = "lookups"
       IN IF (writeIndex + meshTriangleCount) <= MAX_VERTEX_SHADING_CACHE_TRIANGLES
          THEN stageMesh(stagingOverrun)
          ELSE \/ /\ shadePc' = "asserted"
                  /\ UNCHANGED <<vertexShadingCache, vertexShadingCacheTriangleCount,
                                 stagingOverrun, lookupMeshIndex>>
               \/ /\ stagingOverrun = "none"
                  /\ \E overrun \in {"kept", "lost"} : stageMesh(overrun)
               \/ /\ stagingOverrun # "none"
                  /\ stageMesh(stagingOverrun)
    /\ UNCHANGED <<batchMeshes, triangleWriteCounts, shadedTriangles, shadeTriangleIndex>>

\* The head of ProcessVertexShadersInternal: the write counts are zeroed.
ShadeLookupsEnd ==
    /\ shadePc = "lookups"
    /\ lookupMeshIndex = Len(batchMeshes)
    /\ triangleWriteCounts' = [m \in 1..Len(batchMeshes) |-> 0]
    /\ shadedTriangles' = [m \in 1..Len(batchMeshes) |-> <<>>]
    /\ shadeTriangleIndex' = 0
    /\ shadePc' = "shading"
    /\ UNCHANGED <<batchMeshes, lookupMeshIndex, vertexShadingCache,
                   vertexShadingCacheTriangleCount, stagingOverrun>>

\* const int unrollMeshIndex = meshIndices[i];
UnrollMeshIndex(triangleIndex, i) ==
    vertexShadingCache[triangleIndex + i + 1].meshProcessCacheIndex

\* The shaded triangles of the lanes from triangleIndex on that belong to a
\* mesh, in lane order.
LaneResults(triangleIndex, laneCount, mesh) ==
    LET lanes == [i \in 1..laneCount |->
                     [mesh |-> UnrollMeshIndex(triangleIndex, i - 1),
                      shaded |-> VertexShader(UnrollMeshIndex(triangleIndex, i - 1),
                                     vertexShadingCache[triangleIndex + i].triangle)]]
        ofMesh == SelectSeq(lanes, LAMBDA lane : lane.mesh = mesh)
    IN [i \in 1..Len(ofMesh) |-> ofMesh[i].shaded]

\* The lanes from triangleIndex on are shaded and written back, each to the
\* arrays of its mesh at the mesh's write count.
ShadeLanes(laneCount) ==
    LET results == [m \in 1..Len(batchMeshes) |->
                       LaneResults(shadeTriangleIndex, laneCount, m - 1)]
    IN IF \E m \in 1..Len(batchMeshes) :
              triangleWriteCounts[m] + Len(results[m]) > MAX_DRAW_CALL_MESH_TRIANGLES
       THEN /\ shadePc' = "asserted"
            /\ UNCHANGED <<triangleWriteCounts, shadedTriangles, shadeTriangleIndex>>
       ELSE /\ shadedTriangles' =
                   [m \in 1..Len(batchMeshes) |-> shadedTriangles[m] \o results[m]]
            /\ triangleWriteCounts' =
                   [m \in 1..Len(batchMeshes) |-> triangleWriteCounts[m] + Len(results[m])]
            /\ shadeTriangleIndex' = shadeTriangleIndex + laneCount
            /\ shadePc' = "shading"

\* One iteration of the unrolled loop of ProcessVertexShadersInternal.
ShadeUnrolledGroup ==
    /\ shadePc = "shading"
    /\ shadeTriangleIndex <
           GetUnrollAdjustedLoopCount(vertexShadingCacheTriangleCount, TYPICAL_LOOP_UNROLL)
    /\ ShadeLanes(TYPICAL_LOOP_UNROLL)
    /\ UNCHANGED <<batchMeshes, lookupMeshIndex, vertexShadingCache,
                   vertexShadingCacheTriangleCount, stagingOverrun>>

\* One iteration of the loop over the triangles left after the unrolled loop.
ShadeRemainingTriangle ==
    /\ shadePc = "shading"
    /\ shadeTriangleIndex >=
           GetUnrollAdjustedLoopCount(vertexShadingCacheTriangleCount, TYPICAL_LOOP_UNROLL)
    /\ shadeTriangleIndex < vertexShadingCacheTriangleCount
    /\ ShadeLanes(1)
    /\ UNCHANGED <<batchMeshes, lookupMeshIndex, vertexShadingCache,
                   vertexShadingCacheTriangleCount, stagingOverrun>>

ShadeEnd ==
    /\ shadePc = "shading"
    /\ shadeTriangleIndex >=
           GetUnrollAdjustedLoopCount(vertexShadingCacheTriangleCount, TYPICAL_LOOP_UNROLL)
    /\ shadeTriangleIndex >= vertexShadingCacheTriangleCount
    /\ shadePc' = "shaded"
    /\ UNCHANGED <<batchMeshes, lookupMeshIndex, vertexShadingCache,
                   vertexShadingCacheTriangleCount, stagingOverrun, triangleWriteCounts,
                   shadedTriangles, shadeTriangleIndex>>

ShadeNext ==
    \/ ShadeBeginBatch
    \/ ShadeLookupMesh
    \/ ShadeLookupsEnd
    \/ ShadeUnrolledGroup
    \/ ShadeRemainingTriangle
    \/ ShadeEnd

\* ------------------------------------------------------------------------
\* The clip space mesh of a draw call: ProcessClipping over all triangles
\* ------------------------------------------------------------------------
MAX_CLIPPED_MESH_TRIANGLES == 4096

\* Vertex-shaded triangles a mesh can be made of: clipped away, inside the
\* frustum, and cut into 2 and into 9 triangles by the planes.
MeshShadedTriangles ==
    { <<Vertex(-4, 3, 1, 2, 1, 0), Vertex(-4, 3, 1, 2, 1, 0), Vertex(-4, 3, 1, 2, 1, 0)>>,
      <<Vertex(0, 0, 0, 1, 0, 0), Vertex(1, -1, 1, 1, 1, 0), Vertex(-1, 1, 0, 2, 0, 1)>>,
      <<Vertex(-4, 3, 1, 2, 1, 0), Vertex(0, 0, 0, 1, 0, 0), Vertex(0, 0, 0, 1, 0, 0)>>,
      <<Vertex(-4, 3, 1, 2, 1, 0), Vertex(1, -1, 1, 1, 1, 0), Vertex(3, -3, -4, 1, 0, 1)>> }

MeshClipIdle ==
    /\ indexBufferTriangleCount = 0
    /\ meshShadedTriangle = StaleTriangle
    /\ meshTriangleIndex = 0
    /\ meshClipSpaceTriangleCount = 0
    /\ meshClipOutOfBounds = FALSE
    /\ meshClipPc = "idle"

MeshClipInit == MeshClipIdle

\* ProcessClipping reaches a mesh: clipSpaceMeshTriangleCount = 0. The mesh
\* has triangleCount triangles with the same vertex-shaded vertices.
MeshClipBegin ==
    /\ meshClipPc \in {"idle", "done"}
    /\ \E triangleCount \in MeshTriangleCounts, triangle \in MeshShadedTriangles :
          /\ indexBufferTriangleCount' = triangleCount
          /\ meshShadedTriangle' = triangle
    /\ meshTriangleIndex' = 0
    /\ meshClipSpaceTriangleCount' = 0
    /\ meshClipOutOfBounds' = FALSE
    /\ meshClipPc' = "clipping"

\* One iteration of the triangle loop: the triangle is clipped against the
\* six planes and its result triangles are added to the clip space mesh.
MeshClipTriangle ==
    /\ meshClipPc = "clipping"
    /\ meshTriangleIndex < indexBufferTriangleCount
    /\ LET resultTriangleCount == Len(ClipWithPlanesFrom(<<meshShadedTriangle>>, 0))
       IN /\ meshClipOutOfBounds' =
                (\/ meshClipOutOfBounds
                 \/ \E resultTriangleIndex \in 0..(resultTriangleCount - 1) :
                       meshClipSpaceTriangleCount + resultTriangleIndex
                           >= MAX_CLIPPED_MESH_TRIANGLES)
          /\ meshClipSpaceTriangleCount' = meshClipSpaceTriangleCount + resultTriangleCount
    /\ meshTriangleIndex' = meshTriangleIndex + 1
    /\ UNCHANGED <<indexBufferTriangleCount, meshShadedTriangle, meshClipPc>>

MeshClipEnd ==
    /\ meshClipPc = "clipping"
    /\ meshTriangleIndex = indexBufferTriangleCount
    /\ meshClipPc' = "done"
    /\ UNCHANGED <<indexBufferTriangleCount, meshShadedTriangle, meshTriangleIndex,
                   meshClipSpaceTriangleCount, meshClipOutOfBounds>>

MeshClipNext ==
    \/ MeshClipBegin
    \/ MeshClipTriangle
    \/ MeshClipEnd

ResourcesIdle == DispatchIdle /\ PoolIdle /\ LightIdle /\ RasterIdle /\ ShadeIdle /\ MeshClipIdle

\* ------------------------------------------------------------------------
\* Specifications
\* ------------------------------------------------------------------------
SubmitSpecInit == SubmitInit /\ ClipIdle /\ PixelIdle /\ ResourcesIdle

SubmitSpecNext == SubmitNext /\ UNCHANGED <<clipVars, pixelVars, resourceVars>>

ClipSpecInit == ClipInit /\ SubmitIdle /\ PixelIdle /\ ResourcesIdle

ClipSpecNext == ClipNext /\ UNCHANGED <<submitVars, pixelVars, resourceVars>>

PixelSpecInit == PixelInit /\ SubmitIdle /\ ClipIdle /\ ResourcesIdle

PixelSpecNext == PixelNext /\ UNCHANGED <<submitVars, clipVars, resourceVars>>

ResizeSpecNext == ResizeNext /\ UNCHANGED <<submitVars, clipVars, resourceVars>>

DispatchSpecInit == DispatchInit /\ PoolIdle /\ LightIdle /\ RasterIdle /\ ShadeIdle /\ MeshClipIdle /\ SubmitIdle /\ ClipIdle /\ PixelIdle

DispatchSpecNext ==
    DispatchNext /\ UNCHANGED <<submitVars, clipVars, pixelVars, poolVars, lightVars, rasterVars, shadeVars, meshClipVars>>

PoolSpecInit == PoolInit /\ DispatchIdle /\ LightIdle /\ RasterIdle /\ ShadeIdle /\ MeshClipIdle /\ SubmitIdle /\ ClipIdle /\ PixelIdle

PoolSpecNext ==
    PoolNext /\ UNCHANGED <<submitVars, clipVars, pixelVars, dispatchVars, lightVars, rasterVars, shadeVars, meshClipVars>>

UniformSpecNext ==
    UniformNext /\ UNCHANGED <<submitVars, clipVars, pixelVars, dispatchVars, lightVars, rasterVars, shadeVars, meshClipVars>>

LightSpecInit == LightInit /\ DispatchIdle /\ PoolIdle /\ RasterIdle /\ ShadeIdle /\ MeshClipIdle /\ SubmitIdle /\ ClipIdle /\ PixelIdle

LightSpecNext ==
    LightNext /\ UNCHANGED <<submitVars, clipVars, pixelVars, dispatchVars, poolVars, rasterVars, shadeVars, meshClipVars>>

RasterSpecInit == RasterInit /\ DispatchIdle /\ PoolIdle /\ LightIdle /\ ShadeIdle /\ MeshClipIdle /\ SubmitIdle /\ ClipIdle /\ PixelIdle

RasterSpecNext ==
    RasterNext /\ UNCHANGED <<submitVars, clipVars, pixelVars, dispatchVars, poolVars, lightVars, shadeVars, meshClipVars>>

ShadeSpecInit == ShadeInit /\ DispatchIdle /\ PoolIdle /\ LightIdle /\ RasterIdle /\ MeshClipIdle /\ SubmitIdle /\ ClipIdle /\ PixelIdle

ShadeSpecNext ==
    ShadeNext /\ UNCHANGED <<submitVars, clipVars, pixelVars, dispatchVars, poolVars, lightVars, rasterVars, meshClipVars>>

MeshClipSpecInit == MeshClipInit /\ DispatchIdle /\ PoolIdle /\ LightIdle /\ RasterIdle /\ ShadeIdle /\ SubmitIdle /\ ClipIdle /\ PixelIdle

MeshClipSpecNext ==
    MeshClipNext /\ UNCHANGED <<submitVars, clipVars, pixelVars, dispatchVars, poolVars, lightVars, rasterVars, shadeVars>>

Init == SubmitSpecInit

Next == SubmitSpecNext

Spec == Init /\ [][Next]_vars

SpecSubmit == SubmitSpecInit /\ [][SubmitSpecNext]_vars

\* The batching loop runs to completion once submitFrame is called.
FairSpecSubmit == SubmitSpecInit /\ [][SubmitSpecNext]_vars /\ WF_vars(SubmitSpecNext)

SpecClip == ClipSpecInit /\ [][ClipSpecNext]_vars

SpecPixel == PixelSpecInit /\ [][PixelSpecNext]_vars

SpecResize == PixelSpecInit /\ [][ResizeSpecNext]_vars

SpecDispatch == DispatchSpecInit /\ [][DispatchSpecNext]_vars

SpecPool == PoolSpecInit /\ [][PoolSpecNext]_vars

SpecUniform == PoolSpecInit /\ [][UniformSpecNext]_vars

SpecLight == LightSpecInit /\ [][LightSpecNext]_vars

SpecRaster == RasterSpecInit /\ [][RasterSpecNext]_vars

SpecShade == ShadeSpecInit /\ [][ShadeSpecNext]_vars

SpecMeshClip == MeshClipSpecInit /\ [][MeshClipSpecNext]_vars

\* ------------------------------------------------------------------------
\* Properties of the batching loop
\* ------------------------------------------------------------------------
InOrderFromZero(s) == s = [i \in 1..Len(s) |-> i - 1]

\* C1: the draw calls staged into batches and rasterized are exactly the
\* supplied list: indices 0..n-1, each once, in increasing order, nothing
\* skipped, repeated or reordered within or across batches.
C1_ExactlySuppliedList ==
    /\ InOrderFromZero(staged)
    /\ InOrderFromZero(rasterized)
    /\ Len(rasterized) <= Len(staged)
    /\ Len(staged) <= drawCallCount
    /\ submitPc = "done" => (Len(staged) = drawCallCount /\ Len(rasterized) = drawCallCount)

C1_Witness ==
    /\ submitPc = "done"
    /\ drawCallCount > MAX_MESH_PROCESS_CACHES
    /\ Len(dispatched) >= 3
    /\ Len(rasterized) = drawCallCount

\* C2: the batch loop finishes for every draw call list: each iteration of
\* the while loop forms a batch of at least one draw call, so drawCallIndex
\* strictly increases, and the loop eventually exits with
\* drawCallIndex = drawCallCount.
C2_BatchLoopFinishes ==
    /\ <>(submitPc = "done" /\ drawCallIndex = drawCallCount)
    /\ [][(submitPc = "rasterize" /\ submitPc' = "while")
            => (drawCallSequenceCount >= 1 /\ drawCallIndex' > drawCallIndex)]_vars

C2_Witness ==
    /\ submitPc = "done"
    /\ drawCallIndex = drawCallCount
    /\ drawCallCount >= 3
    /\ Cardinality({drawCalls[i] : i \in DOMAIN drawCalls}) = 3

\* C3: a batch never holds more than MAX_MESH_PROCESS_CACHES draw calls, and
\* every mesh process cache slot written (staging) or read (rasterizing) is
\* in [0, MAX_MESH_PROCESS_CACHES).
C3_BatchWithinCaches ==
    /\ drawCallSequenceCount <= MAX_MESH_PROCESS_CACHES
    /\ lastSlot \in 0..(MAX_MESH_PROCESS_CACHES - 1)
    /\ \A b \in DOMAIN dispatched : dispatched[b][2] <= MAX_MESH_PROCESS_CACHES

C3_Witness ==
    /\ submitPc = "done"
    /\ drawCallCount > MAX_MESH_PROCESS_CACHES
    /\ \E b \in DOMAIN dispatched : dispatched[b][2] = MAX_MESH_PROCESS_CACHES
    /\ lastSlot = MAX_MESH_PROCESS_CACHES - 1 \/ Len(dispatched) >= 2

\* C4: the draw calls of one batch are consecutive in the list and share one
\* vertexShaderType, which is the type ProcessVertexShaders is dispatched
\* with: every draw call is shaded with its own vertex shader type.
C4_BatchSharesVertexShader ==
    /\ \A i \in DOMAIN shadedAs :
          /\ i \in DOMAIN staged
          /\ staged[i] + 1 \in DOMAIN drawCalls
          /\ shadedAs[i] = drawCalls[staged[i] + 1]
    /\ submitPc \in {"for", "rasterize"} =>
          \A s \in 0..(drawCallSequenceCount - 1) :
              /\ meshProcessCache[s] = drawCallIndex + s
              /\ drawCalls[drawCallIndex + s + 1] = vertexShaderType

C4_Witness ==
    /\ submitPc = "done"
    /\ \E b \in DOMAIN dispatched : dispatched[b][2] >= 2
    /\ \E b1, b2 \in DOMAIN dispatched : dispatched[b1][1] # dispatched[b2][1]
    /\ Len(shadedAs) = drawCallCount

\* ------------------------------------------------------------------------
\* Properties of clipping
\* ------------------------------------------------------------------------
\* a <= b for two exact numbers
RLeq(a, b) == (a[1] * b[2]) <= (b[1] * a[2])

\* -w <= x <= w, -w <= y <= w and -w <= z <= w
VertexWithinFrustum(vertex) ==
    \A c \in 1..3 : RLeq(RNeg(vertex[4]), vertex[c]) /\ RLeq(vertex[c], vertex[4])

\* C7: when a triangle needs more clip list entries than
\* MAX_CLIPPED_TRIANGLE_TRIANGLES the renderer stops on an assertion and
\* never goes on to produce output from the overrun list.
C7_ClipOverflowAsserts == clipOutOfBounds => clipPc = "asserted"

\* C8: after the sixth plane at most 64 result triangles are left
\* (clipListSize - clipListFrontIndex), and at most 64 are added to the mesh.
C8_AtMost64Results ==
    /\ (clipPc = "plane" /\ clipPlaneIndex = ClipPlaneCount) =>
          clipListSize - clipListFrontIndex <= MAX_CLIPPED_TRIANGLE_TRIANGLES
    /\ clipPc = "done" =>
          /\ clipListSize - clipListFrontIndex <= MAX_CLIPPED_TRIANGLE_TRIANGLES
          /\ clipSpaceMeshTriangleCount <= MAX_CLIPPED_TRIANGLE_TRIANGLES

C8_Witness ==
    /\ clipPc = "done"
    /\ clipPlaneIndex = ClipPlaneCount
    /\ clipSpaceMeshTriangleCount >= 8
    /\ clipListSize - clipListFrontIndex = clipSpaceMeshTriangleCount

\* C9: when the pass of a plane starts, clipListSize - clipListFrontIndex is
\* the number of triangles awaiting that plane (1 before the first plane,
\* else what the previous plane output); the pass takes exactly those from
\* the front, each once, and never a triangle appended during the pass.
C9_PassTakesWaitingTriangles ==
    /\ clipPc = "plane" => clipListSize - clipListFrontIndex = prevPassOutput
    /\ clipPc = "clip" =>
          /\ passStartSize - passStartFront = prevPassOutput
          /\ passTaken = [i \in 1..Len(passTaken) |-> passStartFront + i - 1]
          /\ clipListFrontIndex = passStartFront + Len(passTaken)
          /\ triangleToClip = passStartSize - clipListFrontIndex
          /\ \A i \in DOMAIN passTaken : passTaken[i] < passStartSize

C9_Witness ==
    /\ clipPc = "clip"
    /\ clipPlaneIndex >= 2
    /\ triangleToClip = 0
    /\ Len(passTaken) >= 3
    /\ clipListSize > passStartSize

\* C10: a triangle whose three vertices are inside all 6 planes comes out
\* of clipping as exactly one triangle with the same three vertices and UVs
\* in the same order.
C10_InsideTriangleUnchanged ==
    (clipPc = "done" /\ \A i \in 1..3 : VertexWithinFrustum(shadedTriangle[i])) =>
        /\ clipSpaceMeshTriangleCount = 1
        /\ DOMAIN clipSpaceMesh = {0}
        /\ clipSpaceMesh[0] = shadedTriangle

C10_Witness ==
    /\ clipPc = "done"
    /\ \A i \in 1..3 : VertexWithinFrustum(shadedTriangle[i])
    /\ Cardinality({shadedTriangle[1], shadedTriangle[2], shadedTriangle[3]}) = 3
    /\ \E i \in 1..3 : shadedTriangle[i][1] = shadedTriangle[i][4]
    /\ clipSpaceMeshTriangleCount = 1

\* ------------------------------------------------------------------------
\* Properties of the pixel stage
\* ------------------------------------------------------------------------
\* C5: after a covered pixel whose sampled texel is the transparent palette
\* index is processed under an AlphaTested* pixel shader, the colour buffer
\* and the depth buffer hold at that pixel what they held before.
C5_TransparentTexelWritesNothing ==
    transparentFragment # <<>> =>
        LET f == transparentFragment[1]
        IN  /\ colorBuffer[f.pixelIndex] = f.prevColor
            /\ depthBuffer[f.pixelIndex] = f.prevDepth

\* The frame so far consists of two depth-tested Opaque fragments at one
\* pixel with different depths.
TwoOverlappingOpaque ==
    /\ opaqueOnly
    /\ Len(opaqueFragments) = 2
    /\ opaqueFragments[1].pixelIndex = opaqueFragments[2].pixelIndex
    /\ opaqueFragments[1].ndcZDepth # opaqueFragments[2].ndcZDepth

\* Of the two fragments, the one with the smaller depth
NearerOpaqueFragment ==
    IF opaqueFragments[1].ndcZDepth < opaqueFragments[2].ndcZDepth
    THEN opaqueFragments[1] ELSE opaqueFragments[2]

\* C6 as stated: for two overlapping opaque triangles drawn with the depth
\* test enabled, the final colour at a pixel covered by both is that of the
\* triangle with the smaller depth there, in either submission order.
C6_NearerOpaqueWins ==
    TwoOverlappingOpaque =>
        colorBuffer[opaqueFragments[1].pixelIndex] = NearerOpaqueFragment.color

\* C6 amended: the same when both triangles are drawn with the depth test
\* and the depth write enabled.
C6_NearerOpaqueWinsWithDepthWrite ==
    (/\ TwoOverlappingOpaque
     /\ opaqueFragments[1].enableDepthWrite
     /\ opaqueFragments[2].enableDepthWrite) =>
        colorBuffer[opaqueFragments[1].pixelIndex] = NearerOpaqueFragment.color

C6_Witness ==
    /\ TwoOverlappingOpaque
    /\ opaqueFragments[1].enableDepthWrite
    /\ opaqueFragments[2].enableDepthWrite
    /\ opaqueFragments[1].ndcZDepth < opaqueFragments[2].ndcZDepth
    /\ opaqueFragments[1].color # opaqueFragments[2].color
    /\ colorBuffer[opaqueFragments[1].pixelIndex] = opaqueFragments[1].color
    /\ depthBuffer[opaqueFragments[1].pixelIndex] = opaqueFragments[1].ndcZDepth

\* ------------------------------------------------------------------------
\* Properties of one clip step
\* ------------------------------------------------------------------------
\* One iteration of the clip loop is taken.
ClipStepTaken == clipPc = "clip" /\ clipListFrontIndex' = clipListFrontIndex + 1

\* The vertex is beyond the plane: component < -w (even planes), > w (odd).
VertexOutsidePlane(vertex, plane) ==
    LET c == IF plane \in {0, 1} THEN vertex[1]
             ELSE IF plane \in {2, 3} THEN vertex[2] ELSE vertex[3]
    IN IF plane % 2 = 0
       THEN ~RLeq(RNeg(vertex[4]), c)
       ELSE ~RLeq(c, vertex[4])

OutsideVertexCount(tri, plane) ==
    Cardinality({i \in 1..3 : VertexOutsidePlane(tri[i], plane)})

\* Triangles a clip of a triangle with n vertices outside must output.
ExpectedClipResultCount(n) == <<1, 2, 1, 0>>[n + 1]

\* C11: clipping one triangle against one plane outputs 1 triangle when no
\* vertex is outside, 2 when one is, 1 when two are and 0 when all three are.
C11_ClipResultCounts ==
    [][ClipStepTaken =>
          clipListSize' - clipListSize =
              ExpectedClipResultCount(
                  OutsideVertexCount(clipSpaceTriangles[clipListFrontIndex], clipPlaneIndex))]_vars

C11_Witness ==
    /\ clipPc = "clip"
    /\ Len(passTaken) = 1
    /\ OutsideVertexCount(clipSpaceTriangles[passTaken[1]], clipPlaneIndex) = 1
    /\ VertexOutsidePlane(clipSpaceTriangles[passTaken[1]][3], clipPlaneIndex)
    /\ clipListSize - passStartSize = 2

\* x, y and w of a vertex as integers over a common positive factor
HomogeneousRow(vertex) ==
    LET x == vertex[1]
        y == vertex[2]
        w == vertex[4]
        xy == (x[2] * y[2]) \div GCD(x[2], y[2])
        l == (xy * w[2]) \div GCD(xy, w[2])
        a == x[1] * (l \div x[2])
        b == y[1] * (l \div y[2])
        c == w[1] * (l \div w[2])
        g == GCD(GCD(Abs(a), Abs(b)), Abs(c))
    IN IF g = 0 THEN <<0, 0, 0>> ELSE <<a \div g, b \div g, c \div g>>

Sign(n) == IF n > 0 THEN 1 ELSE IF n < 0 THEN -1 ELSE 0

\* Sign of the determinant of the vertices' (x, y, w): for vertices in front
\* of the camera, the sign of the projected signed area.
WindingSign(tri) ==
    LET r0 == HomogeneousRow(tri[1])
        r1 == HomogeneousRow(tri[2])
        r2 == HomogeneousRow(tri[3])
    IN Sign((r0[1] * ((r1[2] * r2[3]) - (r1[3] * r2[2])))
            - (r0[2] * ((r1[1] * r2[3]) - (r1[3] * r2[1])))
            + (r0[3] * ((r1[1] * r2[2]) - (r1[2] * r2[1]))))

\* C12 as stated: every triangle a clip step emits has a signed area of the
\* same sign as its parent's.
C12_SameWindingSign ==
    [][ClipStepTaken =>
          \A i \in clipListSize..(clipListSize' - 1) :
              WindingSign(clipSpaceTriangles'[i]) =
                  WindingSign(clipSpaceTriangles[clipListFrontIndex])]_vars

\* C12 amended: every triangle a clip step emits has a signed area of the
\* parent's sign or of zero area, never of the opposite sign.
C12_NoWindingFlip ==
    [][ClipStepTaken =>
          \A i \in clipListSize..(clipListSize' - 1) :
              WindingSign(clipSpaceTriangles'[i]) \in
                  {0, WindingSign(clipSpaceTriangles[clipListFrontIndex])}]_vars

C12_Witness ==
    /\ clipPc = "clip"
    /\ Len(passTaken) = 1
    /\ clipListSize - passStartSize = 2
    /\ clipListSize <= MAX_CLIPPED_TRIANGLE_TRIANGLES
    /\ WindingSign(clipSpaceTriangles[passTaken[1]]) # 0
    /\ \A i \in passStartSize..(clipListSize - 1) :
          WindingSign(clipSpaceTriangles[i]) = WindingSign(clipSpaceTriangles[passTaken[1]])

\* ------------------------------------------------------------------------
\* Properties of the frame buffers
\* ------------------------------------------------------------------------
\* submitFrame has cleared the buffers and no fragment has been drawn.
NothingDrawn ==
    pixelPc = "frame" /\ opaqueOnly /\ opaqueFragments = <<>> /\ transparentFragment = <<>>

\* C13: after resize(w, h) followed immediately by a submitFrame without
\* draw calls, each of the w * h pixels of the output buffer holds the clear
\* value.
C13_ClearAfterResize ==
    (NothingDrawn /\ frameFollowsResize) =>
        /\ DOMAIN colorBuffer = 0..((frameBufferWidth * frameBufferHeight) - 1)
        /\ \A p \in DOMAIN colorBuffer : colorBuffer[p] = ClearColor

C13_Witness ==
    /\ NothingDrawn
    /\ frameFollowsResize
    /\ frameBufferWidth = 1
    /\ frameBufferHeight = 2
    /\ colorBuffer = [p \in 0..1 |-> ClearColor]

\* The pixel is as ClearFrameBuffers left it.
IsClearedPixel(p) ==
    /\ paletteIndexBuffer[p] = 0
    /\ depthBuffer[p] = DepthInfinity
    /\ colorBuffer[p] = ClearColor

\* C14: after every pixel write during submitFrame, the colour buffer at the
\* pixel holds the active palette's colour for the index that the palette
\* index buffer holds at that pixel.
C14_ColorIsPaletteOfIndex ==
    pixelPc = "frame" =>
        \A p \in Pixels :
            \/ IsClearedPixel(p)
            \/ colorBuffer[p] = PaletteColors(paletteTextureID, paletteIndexBuffer[p])

C14_Witness ==
    /\ pixelPc = "frame"
    /\ paletteTextureID = 1
    /\ \E p \in Pixels :
          /\ paletteIndexBuffer[p] = 0
          /\ depthBuffer[p] = DepthInfinity
          /\ colorBuffer[p] = PaletteColors(1, 0)

\* ------------------------------------------------------------------------
\* Properties of the enum dispatch
\* ------------------------------------------------------------------------
\* The last dispatch switched on a value that no case names.
UnhandledValue ==
    \/ lastDispatch.kind = "vertexShaderType" /\ lastDispatch.value \notin VertexShaderTypes
    \/ lastDispatch.kind = "pixelShaderType" /\ lastDispatch.value \notin PixelShaderTypes
    \/ lastDispatch.kind = "bytesPerTexel" /\ lastDispatch.value \notin {"1", "4"}

\* C15: an unrecognized vertex or pixel shader type, or a texture whose
\* bytes per texel is neither 1 nor 4, ends in a fatal crash whose message
\* names the unhandled value; processing does not continue.
C15_UnhandledValueCrashes ==
    UnhandledValue => crashMessage = lastDispatch.value

\* ------------------------------------------------------------------------
\* Properties of the resource pools
\* ------------------------------------------------------------------------
pools == <<vertexBuffers, uniformBuffers, lights>>

\* The step is a populate call whose element count is not the declared size
\* of the buffer it names.
MismatchedPopulateStep ==
    \/ /\ lastPoolCall'.op = "populateVertexBuffer"
       /\ lastPoolCall'.srcCount # Len(vertexBuffers[lastPoolCall'.id].values)
    \/ /\ lastPoolCall'.op = "populateUniformBuffer"
       /\ lastPoolCall'.srcCount # Len(uniformBuffers[lastPoolCall'.id].values)

\* C16: a populate call whose element count differs from the declared size
\* of the buffer changes nothing.
C16_MismatchedPopulateIsNoOp ==
    [][MismatchedPopulateStep => UNCHANGED pools]_vars

C16_Witness ==
    /\ lastPoolCall.op = "populateVertexBuffer"
    /\ lastPoolCall.srcCount = 1
    /\ vertexBuffers[lastPoolCall.id].values = <<0, 0>>
    /\ \E id \in PoolSlots : uniformBuffers[id].used /\ uniformBuffers[id].values = <<1, 1>>

\* The pool a tryCreate call allocates from.
PoolOf(op) ==
    CASE op = "tryCreateVertexBuffer" -> vertexBuffers
      [] op = "tryCreateUniformBuffer" -> uniformBuffers
      [] op = "tryCreateLight" -> lights
      [] OTHER -> EmptyPool

TryCreateOps == {"tryCreateVertexBuffer", "tryCreateUniformBuffer", "tryCreateLight"}

\* C17: a tryCreate call on a pool that has no free slot returns false and
\* leaves the allocated IDs and the contents of every buffer as they were.
C17_FullPoolCreateFails ==
    [][(lastPoolCall'.op \in TryCreateOps /\ UsedSlots(PoolOf(lastPoolCall'.op)) = PoolSlots)
         => (~lastPoolCall'.returned /\ UNCHANGED pools)]_vars

C17_Witness ==
    /\ lastPoolCall.op = "tryCreateVertexBuffer"
    /\ ~lastPoolCall.returned
    /\ UsedSlots(vertexBuffers) = PoolSlots
    /\ \E id \in PoolSlots : vertexBuffers[id].values = <<1, 1>>

C19_LightSumAtMostOne ==
    (lightPc = "done" /\ RLeq(R(0), ambientPercent) /\ RLeq(ambientPercent, R(1)))
        => RLeq(lightIntensitySum, R(1))

C19_Witness ==
    /\ lightPc = "done"
    /\ ambientPercent = RNorm(1, 2)
    /\ lightCount = 2
    /\ lightIndex = 1
    /\ shadedLight.lightIntensity = RNorm(3, 4)
    /\ lightIntensitySum = R(1)

\* The distance is strictly between the radii of the light.
WithinFalloffBand ==
    RLess(shadedLight.startRadius, shadedLight.lightDistance)
        /\ RLess(shadedLight.lightDistance, shadedLight.endRadius)

\* 1 - (distance - startRadius) / (endRadius - startRadius)
LinearFalloff ==
    RSub(R(1), RDiv(RSub(shadedLight.lightDistance, shadedLight.startRadius),
                    RSub(shadedLight.endRadius, shadedLight.startRadius)))

\* C20: a light with 0 <= startRadius <= endRadius contributes exactly 1.0
\* at a distance <= startRadius, exactly 0.0 at a distance >= endRadius, and
\* 1 - (distance - startRadius) / (endRadius - startRadius) strictly between.
C20_LightFalloff ==
    shadedLight.shaded =>
        /\ RLeq(shadedLight.lightDistance, shadedLight.startRadius)
              => shadedLight.lightIntensity = R(1)
        /\ RLeq(shadedLight.endRadius, shadedLight.lightDistance)
              => shadedLight.lightIntensity = R(0)
        /\ WithinFalloffBand => shadedLight.lightIntensity = LinearFalloff

\* C20 (amended): as C20, with 0.0 at a distance >= endRadius that is also
\* > startRadius.
C20_LightFalloffStartFirst ==
    shadedLight.shaded =>
        /\ RLeq(shadedLight.lightDistance, shadedLight.startRadius)
              => shadedLight.lightIntensity = R(1)
        /\ (RLeq(shadedLight.endRadius, shadedLight.lightDistance)
              /\ RLess(shadedLight.startRadius, shadedLight.lightDistance))
              => shadedLight.lightIntensity = R(0)
        /\ WithinFalloffBand => shadedLight.lightIntensity = LinearFalloff

C20_Witness ==
    /\ shadedLight.shaded
    /\ shadedLight.startRadius = R(1)
    /\ shadedLight.endRadius = R(2)
    /\ shadedLight.lightDistance = RNorm(3, 2)
    /\ shadedLight.lightIntensity = RNorm(1, 2)

\* C21: the light level handed to a pixel shader is within
\* [0, lastLightLevel] for every summed intensity, also after the dithering
\* step, so the light table lookup of every texel is inside the table.
C21_LightLevelInTable ==
    lightPc = "shade" =>
        /\ 0 <= shaderLightLevel
        /\ shaderLightLevel <= LastLightLevel
        /\ (TexelsPerLightLevel - 1) + (shaderLightLevel * TexelsPerLightLevel)
              < TexelsPerLightLevel * LightLevelCount

C21_Witness ==
    /\ lightPc = "shade"
    /\ lightDithered
    /\ lightIntensitySum = R(0)
    /\ shaderLightLevel = LastLightLevel

\* C22: whenever pixels are rasterized, after any init, resize and
\* submitFrame calls, the dither mask has the width and height of the frame
\* buffer and the layout of the dithering mode of the frame (no mask for
\* the mode without dithering).
C22_DitherMaskMatchesFrame ==
    pixelPc = "frame" =>
        /\ ditheringMode = frameDitheringMode
        /\ ditherBuffer = CreateDitherBuffer(frameBufferWidth, frameBufferHeight,
                                             frameDitheringMode)
        /\ frameDitheringMode # "None" =>
              /\ ditherBuffer.width = frameBufferWidth
              /\ ditherBuffer.height = frameBufferHeight

C22_Witness ==
    /\ pixelPc = "frame"
    /\ frameFollowsResize
    /\ frameDitheringMode = "Modern"
    /\ frameBufferWidth = 2
    /\ ditherBuffer.depth = DITHERING_MODERN_MASK_COUNT
    /\ ditherBuffer.bits[1]
    /\ ~ditherBuffer.bits[3]

NdcSignedArea(tri) ==
    LET nx(i) == RDiv(tri[i][1], tri[i][4])
        ny(i) == RDiv(tri[i][2], tri[i][4])
    IN RSub(RMul(RSub(nx(2), nx(1)), RSub(ny(3), ny(1))),
            RMul(RSub(nx(3), nx(1)), RSub(ny(2), ny(1))))

HasNoPositiveArea(tri) ==
    /\ \A i \in 1..3 : tri[i][4][1] # 0
    /\ ~RLess(R(0), NdcSignedArea(tri))

FullyOutsideOnePlane(tri) ==
    \E plane \in 0..(ClipPlaneCount - 1) : \A i \in 1..3 : VertexOutsidePlane(tri[i], plane)

\* The later triangle of the mesh that faces the camera.
FrontFacingLaterTriangle ==
    <<Vertex(-1, -1, 0, 1, 0, 0), Vertex(1, -1, 1, 1, 1, 0), Vertex(1, 1, 0, 1, 1, 1)>>

\* C24: a triangle whose screen-space signed area is not positive, or that
\* lies fully outside one frustum plane, gives no pixel visit (so no pixel
\* write), and the triangles after it in the mesh are still processed.
C24_DegenerateTriangleSkipped ==
    /\ \A k \in 1..Len(clipSpaceMeshTriangles) :
          HasNoPositiveArea(clipSpaceMeshTriangles[k].triangle)
              => \A visit \in rasterVisits : visit.triangleIndex # k - 1
    /\ \A s \in 1..Len(rasterShaded) :
          FullyOutsideOnePlane(rasterShaded[s])
              => \A visit \in rasterVisits : visit.source # s
    /\ (rasterPc = "done" /\ rasterShaded[2] = FrontFacingLaterTriangle)
          => (\E visit \in rasterVisits : visit.source = 2 /\ visit.covered)

\* A mesh whose first triangle faces away from the camera has been
\* rasterized: the triangle after it was drawn.
C24_Witness ==
    /\ rasterPc = "done"
    /\ Len(clipSpaceMeshTriangles) >= 2
    /\ clipSpaceMeshTriangles[1].source = 1
    /\ RLess(NdcSignedArea(clipSpaceMeshTriangles[1].triangle), R(0))
    /\ \E visit \in rasterVisits : visit.source = 2 /\ visit.covered

\* C25: while one triangle is clipped against the six planes, every clip
\* list slot written has an index below MAX_CLIPPED_TRIANGLE_TRIANGLES:
\* clipListSize stays within the array at every point.
C25_ClipListWithinArray ==
    /\ clipListSize <= MAX_CLIPPED_TRIANGLE_TRIANGLES
    /\ ~clipOutOfBounds

\* ------------------------------------------------------------------------
\* Properties of the vertex shading cache
\* ------------------------------------------------------------------------
\* C26: for a batch of draw calls whose meshes each have at most
\* MAX_DRAW_CALL_MESH_TRIANGLES triangles, the triangles staged into the
\* vertex shading cache are at most MAX_VERTEX_SHADING_CACHE_TRIANGLES.
C26_StagedWithinCache ==
    (\A m \in 1..Len(batchMeshes) : batchMeshes[m] <= MAX_DRAW_CALL_MESH_TRIANGLES)
        => vertexShadingCacheTriangleCount <= MAX_VERTEX_SHADING_CACHE_TRIANGLES

\* C30: after vertex shading of a batch, the write count of every mesh is
\* the triangle count of its index buffer, and the k-th shaded triangle
\* stored for the mesh is the shaded form of the k-th triangle of its index
\* buffer, also when an unrolled group of four spans two meshes.
C30_ShadedTrianglesInOrder ==
    shadePc = "shaded" =>
        \A m \in 1..Len(batchMeshes) :
            /\ triangleWriteCounts[m] = batchMeshes[m]
            /\ Len(shadedTriangles[m]) = batchMeshes[m]
            /\ \A k \in 1..batchMeshes[m] :
                  shadedTriangles[m][k] = VertexShader(m - 1, IndexBufferTriangle(m - 1, k - 1))

C30_HoldsWithoutOverrun == (stagingOverrun = "none") => C30_ShadedTrianglesInOrder

\* C27: for every mesh of a batch, clipSpaceMeshTriangleCount never exceeds
\* MAX_CLIPPED_MESH_TRIANGLES.
C27_ClipSpaceMeshWithinArray ==
    (indexBufferTriangleCount <= MAX_DRAW_CALL_MESH_TRIANGLES)
        => meshClipSpaceTriangleCount <= MAX_CLIPPED_MESH_TRIANGLES

\* ------------------------------------------------------------------------
\* Depth writes
\* ------------------------------------------------------------------------
\* A fragment of a draw call with depth write disabled is rasterized.
RasterizeWithoutDepthWrite == RasterizePixelOf(FragmentShaderInputs, BOOLEAN, {FALSE})

\* C28: rasterizing a draw call with depth write disabled leaves every
\* depth buffer entry unchanged, whatever its pixel shader type and its
\* depth read flag.
C28_NoDepthWriteKeepsDepth ==
    [][RasterizeWithoutDepthWrite => depthBuffer' = depthBuffer]_vars

\* A fragment was written to a pixel whose depth is still the cleared one:
\* it was rasterized with depth write disabled.
C28_Witness ==
    /\ pixelPc = "frame"
    /\ \E p \in Pixels :
          /\ depthBuffer[p] = DepthInfinity
          /\ paletteIndexBuffer[p] # 0

\* ------------------------------------------------------------------------
\* Properties of populateUniformAtIndex
\* ------------------------------------------------------------------------
\* C29: populateUniformAtIndex with data of exactly one element's size
\* changes only the bytes of element uniformIndex and never writes outside
\* the elementCount * sizeOfElement bytes of the buffer, for every
\* uniformIndex it is called with.
C29_UniformWriteWithinBuffer ==
    [][(/\ lastPoolCall'.op = "populateUniformAtIndex"
        /\ lastPoolCall'.srcCount = uniformBuffers[lastPoolCall'.id].sizeOfElement)
         => LET buffer == uniformBuffers[lastPoolCall'.id]
                after == uniformBuffers'[lastPoolCall'.id]
                elementBytes ==
                    { (buffer.sizeOfElement * lastPoolCall'.uniformIndex) + k :
                          k \in 0..(buffer.sizeOfElement - 1) }
            IN /\ lastPoolCall'.writtenBytes \subseteq 0..(Len(buffer.values) - 1)
               /\ \A i \in DOMAIN buffer.values :
                     (i - 1) \notin elementBytes => after.values[i] = buffer.values[i]
               /\ \A id \in PoolSlots \ {lastPoolCall'.id} :
                     uniformBuffers'[id] = uniformBuffers[id]]_vars

\* The calls whose uniformIndex names an element of the buffer stay inside it.
C29_HoldsForValidIndex ==
    [][(/\ lastPoolCall'.op = "populateUniformAtIndex"
        /\ lastPoolCall'.uniformIndex >= 0
        /\ (lastPoolCall'.uniformIndex + 1) * uniformBuffers[lastPoolCall'.id].sizeOfElement
              <= Len(uniformBuffers[lastPoolCall'.id].values))
         => lastPoolCall'.writtenBytes \subseteq
                0..(Len(uniformBuffers[lastPoolCall'.id].values) - 1)]_vars

====
